---- MODULE Spec2Model ----
(***************************************************************************)
(* Inbreeding-coefficient computation of the cat-pedigree dashboard        *)
(* (dashboard_app/src/utils/inbreeding_coefficient.py,                      *)
(* calculate_inbreeding_coefficient_modern).                                *)
(*                                                                         *)
(* One invocation is modelled as a state machine: the record table the     *)
(* function works on (cat_tree_df) and the subject (cat_id) are the        *)
(* inputs, pc is the position inside the function body, and the remaining  *)
(* variables are the function's locals.  The for-loop over the             *)
(* common-ancestor set takes its elements in an arbitrary order, as a      *)
(* Python set does.                                                        *)
(*                                                                         *)
(* Floats: every contribution is 0.5^k with k < 2*NumIds, so every value   *)
(* the function handles is a multiple of 2^-(2*NumIds).  A float x is      *)
(* represented by the integer x * ONE, ONE = 2^(2*NumIds); the sums are    *)
(* exact in IEEE double for these exponents, so is the representation.     *)
(*                                                                         *)
(* Around it: create_cat_tree and the database query, the relationship     *)
(* tester, the CacheManager.memoize wrapper with concurrent calls, the      *)
(* periodic database check of callbacks_database.py with the pages'        *)
(* db-connection-state stores, the update_family_tree callback, and the     *)
(* seeder's connect_to_neo4j.  Each has its own initial predicate and       *)
(* specification; the variables of the others stay idle in it.             *)
(***************************************************************************)
EXTENDS Integers, Sequences, FiniteSets, TLC

VARIABLES cat_tree_df,       \* the table of (cat_id, mother_id, father_id) rows
          cat_id,            \* the subject
          pc,                \* position in the function body
          graph,             \* nx.DiGraph: [nodes, edges, copies]
          mother_id,
          father_id,
          common_ancestors,
          pending,           \* common ancestors the for-loop has not taken yet
          processed_paths,   \* set of (tuple(p_m), tuple(p_f)) keys
          inbreeding_coeff,  \* running total, scaled by ONE
          failed,            \* ancestors whose try-block ended in an except clause
          result,            \* the value returned, scaled by ONE
          raised,            \* an exception left the function
          database,          \* Neo4j: [cats, rels], rels of <<child, type, parent>>
          tree_data,         \* the records db.get_cat_family_tree_with_path returned
          cat_relationships, \* create_cat_tree: the dict's values, in insertion order
          record,            \* create_cat_tree: index of the record a loop is at
          tester,            \* RelationshipTester.test_parent_relationships: its
                             \* position, its locals and what it printed and returned
          cache,             \* utils/cache.py _cache: [initialised, entries]
          memo,              \* the CacheManager.memoize wrapper around the running call
          parked,            \* the frames of the threads that are not running
          monitor,           \* callbacks_database.py: the database's state, the global
                             \* previous_connection_state and each browser session's
                             \* db-connection-state store
          family,            \* callbacks_family_tree.py: the call of update_family_tree
                             \* under way, wrapper and locals
          seeder             \* neo4j_seeder.py connect_to_neo4j: its position and locals

\* what the function does not touch from line 27 on
outside == <<database, tree_data, cat_relationships, record, tester, cache, memo, parked,
             monitor, family, seeder>>

\* the table, the subject and the locals of one invocation
invocation == <<cat_tree_df, cat_id, pc, graph, mother_id, father_id, common_ancestors,
                pending, processed_paths, inbreeding_coeff, failed, result, raised>>

vars == <<invocation, outside>>

(***************************************************************************)
(* Bounds of the model                                                     *)
(***************************************************************************)
\* individuals 1..NumIds may occur in a pedigree table
NumIds == 6
\* individuals 1..NumLooseIds occur in the unrestricted tables (cycles, self-parents,
\* missing rows, one individual as both mother and father)
NumLooseIds == 3
\* a record occurs up to MaxRepeats more times in a table with repeated records
MaxRepeats == 1

\* positional arguments of a memoized dashboard callback
MaxArgs == 2

\* the "no parent" sentinel of the table
NO_PARENT == -1

Ids == 1 .. NumIds

RECURSIVE Pow2(_)
Pow2(n) == IF n = 0 THEN 1 ELSE 2 * Pow2(n - 1)

\* the float 1.0
ONE == Pow2(2 * NumIds)

Min(a, b) == IF a <= b THEN a ELSE b

SeqToSet(s) == {s[i] : i \in 1 .. Len(s)}

(***************************************************************************)
(* networkx, as the function uses it                                       *)
(***************************************************************************)
\* copies[e] is the number of edges the graph holds from e[1] to e[2]
EmptyGraph == [nodes |-> {}, edges |-> {}, copies |-> [e \in {} |-> 1]]

\* (mutant) an undirected nx.Graph in place of the DiGraph
AddEdgeUndirected(g, u, v) ==
    CHOOSE added \in
        {[nodes |-> x.nodes \cup {u, v},
          edges |-> x.edges \cup {<<u, v>>, <<v, u>>},
          copies |-> [e \in x.edges \cup {<<u, v>>, <<v, u>>} |-> 1]] : x \in {g}} : TRUE

\* (mutant) an nx.MultiDiGraph in place of the DiGraph: every add_edge call
\* adds one more parallel edge
AddEdgeMulti(g, u, v) ==
    CHOOSE added \in
        {[nodes |-> x.nodes \cup {u, v},
          edges |-> x.edges \cup {<<u, v>>},
          copies |-> IF <<u, v>> \in x.edges
                     THEN [x.copies EXCEPT ![<<u, v>>] = @ + 1]
                     ELSE (<<u, v>> :> 1) @@ x.copies] : x \in {g}} : TRUE

\* DiGraph.add_edge(u, v): both end points become nodes; the adjacency
\* structure holds one entry per ordered pair, so adding an edge that is
\* already there adds nothing.  (x ranges over {g}: the graph passed is
\* evaluated once.)
AddEdge(g, u, v) ==
    CHOOSE added \in
        {[nodes |-> x.nodes \cup {u, v},
          edges |-> x.edges \cup {<<u, v>>},
          copies |-> IF <<u, v>> \in x.edges THEN x.copies
                     ELSE (<<u, v>> :> 1) @@ x.copies] : x \in {g}} : TRUE

Successors(g, n) == {e[2] : e \in {x \in g.edges : x[1] = n}}

RECURSIVE ReachFrom(_, _, _)
ReachFrom(g, frontier, seen) ==
    IF frontier = {} THEN seen
    ELSE LET next == (UNION {Successors(g, n) : n \in frontier}) \ seen
         IN  ReachFrom(g, next, seen \cup next)

\* (mutant) the source counted among its own descendants when a cycle leads
\* back to it
DescendantsWithSource(g, source) ==
    IF source \notin g.nodes
    THEN [error |-> "NetworkXError", value |-> {}]
    ELSE [error |-> "none",
          value |-> ReachFrom(g, Successors(g, source), Successors(g, source))]

\* nx.descendants(G, source): every node reachable from source, source itself
\* excluded; NetworkXError when source is not a node of G
Descendants(g, source) ==
    IF source \notin g.nodes
    THEN [error |-> "NetworkXError", value |-> {}]
    ELSE [error |-> "none", value |-> ReachFrom(g, {source}, {source}) \ {source}]

\* (mutant) the search without its "not on the current path" test, cut off, as
\* all_simple_paths' cutoff argument would, once a path is longer than the graph
RECURSIVE ExtendPathRevisiting(_, _, _)
ExtendPathRevisiting(g, path, target) ==
    IF path[Len(path)] = target THEN {path}
    ELSE IF Len(path) > Cardinality(g.nodes) THEN {}
    ELSE UNION {ExtendPathRevisiting(g, Append(path, n), target) :
                    n \in Successors(g, path[Len(path)])}

\* (mutant) a path is reported once it contains the target, not once it ends
\* in it, and is extended further
RECURSIVE ExtendPathThrough(_, _, _)
ExtendPathThrough(g, path, target) ==
    (IF target \in SeqToSet(path) THEN {path} ELSE {})
        \cup UNION {ExtendPathThrough(g, Append(path, n), target) :
                        n \in Successors(g, path[Len(path)]) \ SeqToSet(path)}

RECURSIVE ExtendPath(_, _, _)
ExtendPath(g, path, target) ==
    IF path[Len(path)] = target THEN {path}
    ELSE UNION {ExtendPath(g, Append(path, n), target) :
                    n \in Successors(g, path[Len(path)]) \ SeqToSet(path)}

\* nx.all_simple_paths(G, source, target): the paths from source to target that
\* visit no node twice; NodeNotFound when an end point is not a node of G.
\* (source = target, where networkx versions differ, cannot happen at the two
\* call sites: the target is a descendant of the source, which excludes it.)
AllSimplePaths(g, source, target) ==
    IF source \notin g.nodes \/ target \notin g.nodes
    THEN [error |-> "NodeNotFound", value |-> {}]
    ELSE [error |-> "none",
          value |-> IF source = target THEN {} ELSE ExtendPath(g, <<source>>, target)]

(***************************************************************************)
(* The function body                                                       *)
(***************************************************************************)
\* (mutant) the father's add_edge left out
RECURSIVE BuildGraphMotherOnly(_, _)
BuildGraphMotherOnly(df, g) ==
    IF df = <<>> THEN g
    ELSE LET row == Head(df)
             g1 == IF row.mother_id # NO_PARENT
                   THEN AddEdge(g, row.cat_id, row.mother_id) ELSE g
         IN  BuildGraphMotherOnly(Tail(df), g1)

\* lines 30-39: one add_edge per recorded parent
RECURSIVE BuildGraph(_, _)
BuildGraph(df, g) ==
    IF df = <<>> THEN g
    ELSE LET row == Head(df)
             g1 == IF row.mother_id # NO_PARENT
                   THEN AddEdge(g, row.cat_id, row.mother_id) ELSE g
             g2 == IF row.father_id # NO_PARENT
                   THEN AddEdge(g1, row.cat_id, row.father_id) ELSE g1
         IN  BuildGraph(Tail(df), g2)

\* cat_tree_df[cat_tree_df["cat_id"] == cat_id]
SelectRows(df, cat) == SelectSeq(df, LAMBDA row : row.cat_id = cat)

\* (mutant) missing parent data answered with the table's own -1 sentinel
\* instead of 0.0
LookupParentsSentinel(df, cat) ==
    LET cat_row == SelectRows(df, cat)
    IN  IF cat_row = <<>>
        THEN [action |-> "return", value |-> NO_PARENT * ONE,
              mother |-> NO_PARENT, father |-> NO_PARENT]
        ELSE LET mother == cat_row[1].mother_id
                 father == cat_row[1].father_id
             IN  IF mother = NO_PARENT \/ father = NO_PARENT
                 THEN [action |-> "return", value |-> NO_PARENT * ONE,
                       mother |-> mother, father |-> father]
                 ELSE [action |-> "continue", value |-> 0,
                       mother |-> mother, father |-> father]

\* (mutant) the cat_row.empty test of line 42 left out: .iloc[0] on an empty
\* selection raises IndexError
LookupParentsNoEmptyTest(df, cat) ==
    LET cat_row == SelectRows(df, cat)
    IN  IF cat_row = <<>>
        THEN [action |-> "raise", value |-> 0, mother |-> NO_PARENT, father |-> NO_PARENT]
        ELSE LET mother == cat_row[1].mother_id
                 father == cat_row[1].father_id
             IN  IF mother = NO_PARENT \/ father = NO_PARENT
                 THEN [action |-> "return", value |-> 0,
                       mother |-> mother, father |-> father]
                 ELSE [action |-> "continue", value |-> 0,
                       mother |-> mother, father |-> father]

\* lines 41-49: the subject's row and the early returns on a missing parent.
\* action is "return" (with value), "continue" (with mother, father) or "raise";
\* the empty test of line 42 comes before every .iloc[0], so nothing raises.
LookupParents(df, cat) ==
    LET cat_row == SelectRows(df, cat)
    IN  IF cat_row = <<>>
        THEN [action |-> "return", value |-> 0, mother |-> NO_PARENT, father |-> NO_PARENT]
        ELSE LET mother == cat_row[1].mother_id
                 father == cat_row[1].father_id
             IN  IF mother = NO_PARENT \/ father = NO_PARENT
                 THEN [action |-> "return", value |-> 0,
                       mother |-> mother, father |-> father]
                 ELSE [action |-> "continue", value |-> 0,
                       mother |-> mother, father |-> father]

\* (mutant) the exponent without its + 1
PathContributionNoPlusOne(n1, n2) == ONE \div Pow2(n1 + n2)

\* line 106: 0.5 ** (n1 + n2 + 1)
PathContribution(n1, n2) == ONE \div Pow2(n1 + n2 + 1)

\* lines 89-98: the ancestor occurs once in each path and no other common
\* ancestor occurs in p_m[:-1] or p_f[:-1]
Count(p, x) == Cardinality({i \in 1 .. Len(p) : p[i] = x})

OtherCommonIn(p, ancestor, common) ==
    \E i \in 1 .. Len(p) - 1 : p[i] # ancestor /\ p[i] \in common

\* (mutant) the guard of lines 97-98 on the father's path left out
ValidPairMotherSideOnly(p_m, p_f, ancestor, common) ==
    /\ Count(p_m, ancestor) = 1
    /\ Count(p_f, ancestor) = 1
    /\ ~OtherCommonIn(p_m, ancestor, common)

\* (mutant) the double-counting guard of lines 93-98 left out
ValidPairNoGuard(p_m, p_f, ancestor, common) ==
    /\ Count(p_m, ancestor) = 1
    /\ Count(p_f, ancestor) = 1

ValidPair(p_m, p_f, ancestor, common) ==
    /\ Count(p_m, ancestor) = 1
    /\ Count(p_f, ancestor) = 1
    /\ ~OtherCommonIn(p_m, ancestor, common)
    /\ ~OtherCommonIn(p_f, ancestor, common)

RECURSIVE SumContributions(_)
SumContributions(keys) ==
    IF keys = {} THEN 0
    ELSE LET k == CHOOSE x \in keys : TRUE
         IN  PathContribution(Len(k[1]) - 1, Len(k[2]) - 1) + SumContributions(keys \ {k})

\* lines 72-114 for one ancestor: the pairs not seen before, and among them the
\* valid ones
NewKeys(paths_m, paths_f, processed) == (paths_m \X paths_f) \ processed

ValidKeys(keys, ancestor, common) ==
    {k \in keys : ValidPair(k[1], k[2], ancestor, common)}

\* line 127
Clamp(total) == Min(total, ONE)

(***************************************************************************)
(* The database query and create_cat_tree                                  *)
(***************************************************************************)
EmptyDb == [cats |-> {}, rels |-> {}]

\* depth=10 of the call at line 23
Depth == 10

Reverse(s) == [i \in 1 .. Len(s) |-> s[Len(s) + 1 - i]]

\* the relationships leaving one node are followed in the order of this key
RelKey(rel) == 2 * rel[3] + (IF rel[2] = "HAS_FATHER" THEN 1 ELSE 0)

\* MATCH path = (c:Cat {id: $cat_id})-[:HAS_FATHER|HAS_MOTHER*1..depth]->(ancestor:Cat):
\* every chain of 1..depth relationships that starts in the cat and uses no
\* relationship twice, one record per chain, a chain before its extensions.
\* A path is the sequence of its relationships.
RECURSIVE PathsFrom(_, _, _, _), Expand(_, _, _, _)
PathsFrom(db, path, node, depth) ==
    IF depth = 0 THEN <<>>
    ELSE Expand(db, path,
                {r \in db.rels : r[1] = node /\ r[3] \in db.cats /\ r \notin SeqToSet(path)},
                depth)

Expand(db, path, out, depth) ==
    IF out = {} THEN <<>>
    ELSE LET r == CHOOSE x \in out : \A y \in out : RelKey(x) <= RelKey(y)
         IN  <<Append(path, r)>>
                 \o PathsFrom(db, Append(path, r), r[3], depth - 1)
                 \o Expand(db, path, out \ {r}, depth)

MatchPaths(db, cat, depth) ==
    IF cat \in db.cats THEN PathsFrom(db, <<>>, cat, depth) ELSE <<>>

\* db.get_cat_family_tree_with_path: the records of the query, in an order the
\* database chooses (the query has no ORDER BY); db.query returns [] when the
\* query fails
GetCatFamilyTreeWithPath(db, cat, depth) ==
    {MatchPaths(db, cat, depth), Reverse(MatchPaths(db, cat, depth)), <<>>}

\* path.nodes: the start node and the end node of every relationship
PathNodes(path) == <<path[1][1]>> \o [i \in 1 .. Len(path) |-> path[i][3]]

\* "not child_id": a missing or zero id
Falsy(id) == id = 0

\* cat_relationships is the sequence of its values, in insertion order
HasKey(rows, id) == \E i \in 1 .. Len(rows) : rows[i].cat_id = id

NewRow(id) == [cat_id |-> id, mother_id |-> NO_PARENT, father_id |-> NO_PARENT]

KeyIndex(rows, id) == CHOOSE i \in 1 .. Len(rows) : rows[i].cat_id = id

\* cat_relationships[child_id]["father_id" or "mother_id"] = parent_id
SetParent(rows, i, type, parent) ==
    IF type = "HAS_FATHER" THEN [rows EXCEPT ![i].father_id = parent]
    ELSE IF type = "HAS_MOTHER" THEN [rows EXCEPT ![i].mother_id = parent]
    ELSE rows

\* (mutant) a list of rows, one appended per relationship, in place of the
\* dict keyed by child id
ReadRelationshipAppend(rows, rel) ==
    IF Falsy(rel[1]) \/ Falsy(rel[3]) THEN rows
    ELSE SetParent(Append(rows, NewRow(rel[1])), Len(rows) + 1, rel[2], rel[3])

\* lines 151-170: one relationship of one path
ReadRelationship(rows, rel) ==
    IF Falsy(rel[1]) \/ Falsy(rel[3]) THEN rows
    ELSE LET keyed == IF HasKey(rows, rel[1]) THEN rows ELSE Append(rows, NewRow(rel[1]))
         IN  SetParent(keyed, KeyIndex(keyed, rel[1]), rel[2], rel[3])

\* lines 150-170 for the relationships of one path
RECURSIVE ReadRelationships(_, _)
ReadRelationships(rows, rels) ==
    IF rels = <<>> THEN rows
    ELSE ReadRelationships(ReadRelationship(rows, Head(rels)), Tail(rels))

\* lines 174-179 for the nodes of one path: a row without parents for every
\* node not yet keyed
RECURSIVE ReadNodes(_, _)
ReadNodes(rows, ids) ==
    IF ids = <<>> THEN rows
    ELSE ReadNodes(IF ~Falsy(Head(ids)) /\ ~HasKey(rows, Head(ids))
                   THEN Append(rows, NewRow(Head(ids))) ELSE rows,
                   Tail(ids))

(***************************************************************************)
(* CacheManager.memoize and skip_cache_when_db_unhealthy                   *)
(***************************************************************************)
INBREEDING == "calculate_inbreeding_coefficient_modern"

\* Python values passed as arguments: an int, or a dict given by its items.
\* The values of a dict are named by their Python literal.
PyInt(n) == [type |-> "int", val |-> n, items |-> {}]

PyDict(items) == [type |-> "dict", val |-> 0, items |-> items]

\* key in arg.keys()
InKeys(arg, key) == \E item \in arg.items : item[1] = key

\* arg.get(key, default)
Get(arg, key, default) ==
    IF InKeys(arg, key) THEN (CHOOSE item \in arg.items : item[1] = key)[2] ELSE default

\* bool(value)
Truthy(value) == value = "True"

IsDbState(arg) == arg.type = "dict" /\ InKeys(arg, "healthy")

\* (mutant) the loop without its break: the last dict with a 'healthy' key
SkipCacheLastDbState(f, args) ==
    IF Len(args) > 0
    THEN LET found == {i \in 1 .. Len(args) : IsDbState(args[i])}
         IN  IF found = {} THEN FALSE
             ELSE LET db_state == args[CHOOSE i \in found : \A j \in found : j <= i]
                  IN  ~Truthy(Get(db_state, "healthy", "False"))
    ELSE FALSE

\* skip_cache_when_db_unhealthy(f, *args, **kwargs), lines 44-60: the keyword
\* arguments are not looked at
SkipCacheWhenDbUnhealthy(f, args) ==
    IF Len(args) > 0
    THEN LET found == {i \in 1 .. Len(args) : IsDbState(args[i])}
         IN  IF found = {} THEN FALSE
             ELSE LET db_state == args[CHOOSE i \in found : \A j \in found : i <= j]
                  IN  ~Truthy(Get(db_state, "healthy", "False"))
    ELSE FALSE

\* (mutant) a key of the function alone, as Cache.cached makes it
FunctionKey(f, args, ignore) == <<f, <<>>>>

\* the key Cache.memoize makes: the function and its arguments, those named in
\* args_to_ignore (given by position) left out
MemoizeKey(f, args, ignore) ==
    <<f, [i \in 1 .. Len(args) |-> IF i \in ignore THEN PyDict({}) ELSE args[i]]>>

\* the cache after init_cache (app.py line 42): entries is the set of
\* <<key, value>> it holds, one per key
ColdCache == [initialised |-> TRUE, entries |-> {}]

\* _cache.get(key): the entries under the key (none: a miss)
Cached(entries, key) == {e[2] : e \in {x \in entries : x[1] = key}}

\* _cache.set(key, value)
Stored(entries, key, value) == {e \in entries : e[1] # key} \cup {<<key, value>>}

\* no call of a memoized function is under way
IdleMemo ==
    [func |-> "", args |-> <<>>, ignore |-> {}, pc |-> "idle", route |-> "", value |-> 0]

Call(f, args, ignore) ==
    [func |-> f, args |-> args, ignore |-> ignore, pc |-> "enter", route |-> "", value |-> 0]

(***************************************************************************)
(* The database monitor: check_db_connection and the pages' stores         *)
(* (callbacks/callbacks_database.py, app.py, db_status_alert.py)           *)
(***************************************************************************)
\* browser sessions 1..NumSessions have the page open
NumSessions == 2
\* page loads, checks and changes of the database's condition that are followed
MaxEvents == 6

Sessions == 1 .. NumSessions

\* the database answers, its host cannot be reached, or the query fails
DbConditions == {"up", "unreachable", "unavailable"}

\* db.check_connection(), db_connector.py lines 53-83: True only when the host
\* is reachable and the test query runs
CheckConnection(condition) == IF condition = "up" THEN "True" ELSE "False"

\* the data of dcc.Store(id="db-connection-state")
DbConnectionState(healthy) == PyDict({<<"healthy", healthy>>})

\* dash.no_update
NoUpdate == [type |-> "NoUpdate", val |-> 0, items |-> {}]

AlertColor(healthy) == IF Truthy(healthy) THEN "success" ELSE "danger"

AlertStyle(healthy) == IF Truthy(healthy) THEN "none" ELSE "block"

\* (mutant) the global is left as it was
CheckDbConnectionForgets(previous, is_connected) ==
    [color |-> AlertColor(is_connected), style |-> AlertStyle(is_connected),
     data |-> IF previous # "None" /\ previous = is_connected
              THEN NoUpdate ELSE DbConnectionState(is_connected),
     previous |-> previous]

\* check_db_connection lines 46-73: the three outputs, and the global
\* previous_connection_state after the call
CheckDbConnection(previous, is_connected) ==
    IF previous # "None" /\ previous = is_connected
    THEN [color |-> AlertColor(is_connected), style |-> AlertStyle(is_connected),
          data |-> NoUpdate, previous |-> previous]
    ELSE [color |-> AlertColor(is_connected), style |-> AlertStyle(is_connected),
          data |-> DbConnectionState(is_connected), previous |-> is_connected]

\* Dash stores an output unless it is no_update
Updated(old, output) == IF output = NoUpdate THEN old ELSE output

\* a session without the page, and a page as app.layout (app.py lines 49-67)
\* and create_db_status_alert (lines 21-32) make it: the store and the alert
\* hold the health found at start-up
ClosedPage ==
    [pc |-> "closed", store |-> PyDict({}), color |-> "", style |-> "",
     is_connected |-> "None"]

LoadedPage(db_healthy) ==
    [pc |-> "idle", store |-> DbConnectionState(db_healthy),
     color |-> AlertColor(db_healthy), style |-> AlertStyle(db_healthy),
     is_connected |-> "None"]

\* the server after start-up on a database in the condition given.  events,
\* checks, writes and last_result record what has happened: the events
\* followed, the checks completed, those that wrote the store, and the result
\* of the latest completed check.
StartedMonitor(condition) ==
    [condition |-> condition,
     db_healthy |-> CheckConnection(condition),
     previous_connection_state |-> "None",
     sessions |-> [s \in Sessions |-> ClosedPage],
     events |-> 0, checks |-> 0, writes |-> 0, last_result |-> "None"]

IdleMonitor == StartedMonitor("up")

(***************************************************************************)
(* update_family_tree (callbacks/callbacks_family_tree.py lines 249-361)    *)
(***************************************************************************)
UPDATE_FAMILY_TREE == "update_family_tree"

PyNone == [type |-> "NoneType", val |-> 0, items |-> {}]

\* a float, scaled by ONE as the function's result is
PyFloat(x) == [type |-> "float", val |-> x, items |-> {}]

\* the literal of a cat's id, and the id a literal stands for
Numerals == <<"1", "2", "3", "4", "5", "6", "7", "8", "9">>

IdOf(literal) == CHOOSE n \in 1 .. Len(Numerals) : Numerals[n] = literal

\* the data of selected-cat-store once a cat is selected
SelectedCat(cat) == PyDict({<<"id", Numerals[cat]>>})

\* bool(arg) for None, an int and a dict
PyTruthy(arg) ==
    IF arg.type = "NoneType" THEN FALSE
    ELSE IF arg.type = "dict" THEN arg.items # {}
    ELSE arg.val # 0

\* the three outputs of the callback: the iframe's srcDoc, the message and the
\* iframe's style
Response(srcDoc, info, style) == [srcDoc |-> srcDoc, info |-> info, style |-> style]

\* the empty srcDoc
NoHtml == [nodes |-> {}, root |-> 0, legend |-> [label |-> "", thousandths |-> 0, color |-> ""]]

NoResponse == Response(NoHtml, "", "")

\* lines 284-291, 294-298, 301-311, 319-329 and 350-361
Placeholder == Response(NoHtml, "Select a cat and click 'Generate Family Tree'", "hidden")

PleaseSelect == Response(NoHtml, "Please select a cat", "hidden")

DatabaseError == Response(NoHtml, "Database connection error", "hidden")

NoFamilyData == Response(NoHtml, "No family data found for this cat", "hidden")

\* lines 283-311: the responses given before the database is asked
EarlyResponse(n_clicks, selected_cat, db_state) ==
    IF n_clicks.type = "NoneType" THEN [returns |-> TRUE, value |-> Placeholder]
    ELSE IF ~PyTruthy(selected_cat) THEN [returns |-> TRUE, value |-> PleaseSelect]
    ELSE IF ~Truthy(Get(db_state, "healthy", "False"))
    THEN [returns |-> TRUE, value |-> DatabaseError]
    ELSE [returns |-> FALSE, value |-> NoResponse]

\* the cats the query of db.get_cat_family_tree matches: the root and its
\* ancestors up to depth links away
FamilyNodes(db, cat, depth) ==
    IF cat \notin db.cats THEN {}
    ELSE {cat} \cup {path[Len(path)][3] : path \in SeqToSet(MatchPaths(db, cat, depth))}

RECURSIVE Ascending(_)
Ascending(ids) ==
    IF ids = {} THEN <<>>
    ELSE LET least == CHOOSE x \in ids : \A y \in ids : x <= y
         IN  <<least>> \o Ascending(ids \ {least})

\* db.get_cat_family_tree (db_connector.py lines 290-337): one record per
\* family node, the root first; [] when the query fails or matches nothing
GetCatFamilyTree(db, cat, depth) ==
    {IF FamilyNodes(db, cat, depth) = {} THEN <<>>
     ELSE <<cat>> \o Ascending(FamilyNodes(db, cat, depth) \ {cat}),
     <<>>}

\* add_custom_legend (visualization.py lines 443-452): the label is 'N/A' for
\* None and otherwise the percentage with three decimals; a percentage above
\* 15 is red, one above 5 yellow
InbreedingLegend(inbreeding_coefficient) ==
    IF inbreeding_coefficient.type = "NoneType"
    THEN [label |-> "N/A", thousandths |-> 0, color |-> "#28a745"]
    ELSE [label |-> "percent",
          thousandths |-> (inbreeding_coefficient.val * 100000 + ONE \div 2) \div ONE,
          color |-> IF inbreeding_coefficient.val * 100 > 15 * ONE THEN "#dc3545"
                    ELSE IF inbreeding_coefficient.val * 100 > 5 * ONE THEN "#ffc107"
                    ELSE "#28a745"]

\* (mutant) the legend left out when there is no coefficient
CreateFamilyTreeNetworkNoLegend(raw_tree_data, root_cat_id, inbreeding_coefficient) ==
    IF inbreeding_coefficient.type = "NoneType" THEN NoHtml
    ELSE [nodes |-> SeqToSet(raw_tree_data), root |-> root_cat_id,
          legend |-> InbreedingLegend(inbreeding_coefficient)]

\* process_family_tree_data and create_family_tree_network (visualization.py
\* lines 202-334): the page of the family's nodes with the root marked and
\* the legend
CreateFamilyTreeNetwork(raw_tree_data, root_cat_id, inbreeding_coefficient) ==
    [nodes |-> SeqToSet(raw_tree_data), root |-> root_cat_id,
     legend |-> InbreedingLegend(inbreeding_coefficient)]

\* no call of update_family_tree is under way
IdleFamily ==
    [pc |-> "idle", args |-> <<>>, route |-> "", value |-> NoResponse,
     raw_tree_data |-> <<>>, inbreeding_coefficient |-> PyNone, calls |-> 0]

\* a call with the arguments (n_clicks, selected_cat, depth, db_state)
FamilyCall(args, calls) ==
    [pc |-> "enter", args |-> args, route |-> "", value |-> NoResponse,
     raw_tree_data |-> <<>>, inbreeding_coefficient |-> PyNone, calls |-> calls]

\* args_to_ignore=["n_clicks", "db_state"], line 249
FamilyIgnored == {1, 4}

(***************************************************************************)
(* The seeder's connection to Neo4j (src/db/neo4j/neo4j_seeder.py)          *)
(***************************************************************************)
\* line 33
retries == 30

\* line 60: the attempts that fail without a message
QuietAttempts == 10

\* line 39
ConfigKey(is_docker) == IF is_docker THEN "graph_database_docker" ELSE "graph_database"

\* load_config (utils/scripts.py lines 66-75) and lines 38-51: the process
\* goes on only with a config.json that has the section of the key
ConfigLoads(config, is_docker) == config.found /\ ConfigKey(is_docker) \in config.keys

\* (mutant) the last failure treated as the others
AttemptOutcomeNoExit(attempt, connects) ==
    IF connects THEN "return"
    ELSE IF attempt < QuietAttempts THEN "sleep"
    ELSE "print and sleep"

\* lines 54-68: how one pass of the loop ends
AttemptOutcome(attempt, connects) ==
    IF connects THEN "return"
    ELSE IF attempt < QuietAttempts THEN "sleep"
    ELSE IF attempt < retries - 1 THEN "print and sleep"
    ELSE "exit"

\* connect_to_neo4j has not been called.  driver is the number of the attempt
\* that made the driver returned (0: None), exit_status is -1 while the
\* process runs; attempts and failures count what has happened.
IdleSeeder ==
    [pc |-> "idle", is_docker |-> FALSE, config |-> [found |-> TRUE, keys |-> {}],
     attempt |-> 0, attempts |-> 0, failures |-> 0, driver |-> 0, exit_status |-> -1,
     printed |-> 0, slept |-> 0]

\* nothing of the monitor, of update_family_tree or of the seeder is under way
Elsewhere ==
    /\ monitor = IdleMonitor
    /\ family = IdleFamily
    /\ seeder = IdleSeeder

(***************************************************************************)
(* Inputs: the tables and subjects the model runs the function on          *)
(***************************************************************************)
Row(c, m, f) == [cat_id |-> c, mother_id |-> m, father_id |-> f]

\* Individual 1 is the subject.  Individuals are numbered as the subject's row
\* names them: a mother other than the subject is 2, and a father other than
\* the subject and the mother is 3.

\* Unrestricted tables over 1..NumLooseIds: an individual has no row, or a row
\* naming any individual (itself included) or nobody in either parent column.
LooseIds == 1 .. NumLooseIds

LooseOptions ==
    {<<0, NO_PARENT, NO_PARENT>>} \cup
    {<<1, m, f>> : m \in LooseIds \cup {NO_PARENT}, f \in LooseIds \cup {NO_PARENT}}

SubjectNumbering(option) ==
    /\ option[2] \in {NO_PARENT, 1, 2}
    /\ option[3] \in {NO_PARENT, 1, 2, 3}
    /\ option[3] = 3 => option[2] = 2

RECURSIVE RowsOf(_, _)
RowsOf(choice, i) ==
    IF i > NumLooseIds THEN <<>>
    ELSE (IF choice[i][1] = 1 THEN <<Row(i, choice[i][2], choice[i][3])>> ELSE <<>>)
         \o RowsOf(choice, i + 1)

LooseTables ==
    {RowsOf(choice, 1) :
        choice \in {c \in [LooseIds -> LooseOptions] : SubjectNumbering(c[1])}}

\* Pedigrees over 1..NumIds, one row per individual, numbered from the subject's
\* generation upwards: a parent has a larger number than its child (so the
\* table is acyclic), mothers have even numbers and fathers odd ones.
IsFemale(i) == i % 2 = 0

Mothers(i) ==
    {NO_PARENT} \cup {j \in Ids : j > i /\ IsFemale(j) /\ (i = 1 => j = 2)}

Fathers(i) ==
    {NO_PARENT} \cup {j \in Ids : j > i /\ ~IsFemale(j) /\ (i = 1 => j = 3)}

RECURSIVE PedigreeRows(_)
PedigreeRows(i) ==
    IF i > NumIds THEN {<<>>}
    ELSE {<<Row(i, m, f)>> \o rest :
              m \in Mothers(i), f \in Fathers(i), rest \in PedigreeRows(i + 1)}

PedigreeTables == PedigreeRows(1)

\* Tables with repeated records: a pedigree table followed by one of its
\* records up to MaxRepeats more times, or by all of its records once more.
RECURSIVE Copies(_, _)
Copies(row, k) == IF k = 0 THEN <<>> ELSE <<row>> \o Copies(row, k - 1)

Replays(df) ==
    {<<>>, df} \cup {Copies(df[i], k) : i \in 1 .. Len(df), k \in 1 .. MaxRepeats}

\* Databases over 1..NumLooseIds+1 in which a cat may have several HAS_MOTHER and
\* several HAS_FATHER relationships: a parent has a larger number than its
\* child, mothers have even numbers and fathers odd ones.
TreeIds == 1 .. NumLooseIds + 1

ParentRels(i, type, parents) == {<<i, type, j>> : j \in parents}

RECURSIVE TreeRels(_)
TreeRels(i) ==
    IF i > NumLooseIds + 1 THEN {{}}
    ELSE {ParentRels(i, "HAS_MOTHER", ms) \cup ParentRels(i, "HAS_FATHER", fs) \cup rest :
              ms \in SUBSET {j \in TreeIds : j > i /\ IsFemale(j)},
              fs \in SUBSET {j \in TreeIds : j > i /\ ~IsFemale(j)},
              rest \in TreeRels(i + 1)}

TreeDbs == {[cats |-> TreeIds, rels |-> rels] : rels \in TreeRels(1)}

\* The reference CSV of a database: one record per cat with its mother and its
\* father, -1 for none.  Only a database that gives a cat at most one mother
\* and one father has one.
ParentsIn(db, cat, type) == {r[3] : r \in {x \in db.rels : x[1] = cat /\ x[2] = type}}

SingleParents(db) ==
    \A cat \in db.cats :
        Cardinality(ParentsIn(db, cat, "HAS_MOTHER")) <= 1 /\
        Cardinality(ParentsIn(db, cat, "HAS_FATHER")) <= 1

ParentOrNone(parents) == IF parents = {} THEN NO_PARENT ELSE CHOOSE x \in parents : TRUE

CsvOf(db) ==
    [i \in 1 .. Cardinality(db.cats) |->
        Row(i, ParentOrNone(ParentsIn(db, i, "HAS_MOTHER")),
               ParentOrNone(ParentsIn(db, i, "HAS_FATHER")))]

\* the databases one relationship away from the one the CSV was loaded into
PossibleRels ==
    UNION {ParentRels(i, "HAS_MOTHER", {j \in TreeIds : j > i /\ IsFemale(j)}) \cup
           ParentRels(i, "HAS_FATHER", {j \in TreeIds : j > i /\ ~IsFemale(j)}) : i \in TreeIds}

Edits(db) ==
    {db} \cup {[db EXCEPT !.rels = @ \ {r}] : r \in db.rels}
         \cup {[db EXCEPT !.rels = @ \cup {r}] : r \in IF db.cats = {} THEN {} ELSE PossibleRels}

\* cats.csv as load_cats returns it: the reference of a database at most one
\* relationship away, or an empty frame (no file, no records)
ReferenceCsvs(db) == {<<>>} \cup {CsvOf(e) : e \in {x \in Edits(db) : SingleParents(x)}}

\* the tester before the test is called
IdleTester ==
    [pc |-> "idle", father_df |-> {}, mother_df |-> {}, ref_data |-> <<>>,
     father_match |-> FALSE, mother_match |-> FALSE, printed |-> {}, result |-> FALSE]

\* what the abstract body of a dashboard callback may return
BodyValues == {"figure", "other figure"}

\* positional arguments of a dashboard callback: ints and dicts, among them
\* db_state dicts with 'healthy' True, False or None
ArgValues ==
    {PyInt(1), PyDict({}), PyDict({<<"error", "None">>})} \cup
    {PyDict({<<"healthy", v>>}) : v \in {"True", "False", "None"}}

RECURSIVE ArgLists(_)
ArgLists(n) ==
    IF n = 0 THEN {<<>>}
    ELSE ArgLists(n - 1) \cup
         {Append(args, a) : args \in {x \in ArgLists(n - 1) : Len(x) = n - 1}, a \in ArgValues}

\* The value of one call of the function on a table, from the operators of its
\* steps: what the call returns when nothing else runs.
CoefficientOf(df, cat) ==
    IF df = <<>> THEN 0
    ELSE LET g == BuildGraph(df, EmptyGraph)
             found == LookupParents(df, cat)
         IN  IF found.action # "continue" THEN found.value
             ELSE LET mother_ancestors == Descendants(g, found.mother)
                      father_ancestors == Descendants(g, found.father)
                      common == mother_ancestors.value \cap father_ancestors.value
                  IN  IF mother_ancestors.error # "none" \/ father_ancestors.error # "none"
                      THEN 0
                      ELSE Clamp(SumContributions(UNION {
                               ValidKeys(AllSimplePaths(g, found.mother, a).value
                                             \X AllSimplePaths(g, found.father, a).value,
                                         a, common) : a \in common}))

\* The table create_cat_tree makes of the records: a row per cat id on the
\* paths, its parents those of the relationship read last.
RelPositions(data) ==
    UNION {{<<r, k>> : k \in 1 .. Len(data[r])} : r \in 1 .. Len(data)}

ReadBefore(p, q) == p[1] < q[1] \/ (p[1] = q[1] /\ p[2] < q[2])

\* the positions at which the records give the child a parent of the type
Giving(data, child, type) ==
    {p \in RelPositions(data) : data[p[1]][p[2]][1] = child /\ data[p[1]][p[2]][2] = type}

\* the parent of the relationship read last for the child, -1 when there is none
LastRead(data, child, type) ==
    IF Giving(data, child, type) = {} THEN NO_PARENT
    ELSE LET last == CHOOSE p \in Giving(data, child, type) :
                         \A q \in Giving(data, child, type) : q = p \/ ReadBefore(q, p)
         IN  data[last[1]][last[2]][3]

\* the cat ids on the paths of the records
RecordIds(data) ==
    UNION {{data[r][1][1]} \cup {data[r][k][3] : k \in 1 .. Len(data[r])} : r \in 1 .. Len(data)}

TableOf(data) ==
    LET ids == RecordIds(data)
        Nth(i) == CHOOSE x \in ids : Cardinality({y \in ids : y < x}) = i - 1
    IN  [i \in 1 .. Cardinality(ids) |->
            Row(Nth(i), LastRead(data, Nth(i), "HAS_MOTHER"), LastRead(data, Nth(i), "HAS_FATHER"))]

\* the values a call for the subject can return when it runs alone on an
\* empty cache: one per answer the database can give
AloneValues(db, cat) ==
    {CoefficientOf(TableOf(data), cat) : data \in GetCatFamilyTreeWithPath(db, cat, Depth)}

\* the cache after earlier calls for some of the subjects
WarmCaches(db, subjects) ==
    UNION {{[ColdCache EXCEPT !.entries = {<<MemoizeKey(INBREEDING, <<PyInt(cat)>>, {}), v>>}] :
                v \in AloneValues(db, cat)} : cat \in subjects}

\* no memoized call under way, no other thread
NoCalls ==
    /\ cache = ColdCache
    /\ memo = IdleMemo
    /\ parked = <<>>

\* the locals of the function before its first statement
Unset ==
    /\ graph = EmptyGraph
    /\ mother_id = NO_PARENT
    /\ father_id = NO_PARENT
    /\ common_ancestors = {}
    /\ pending = {}
    /\ processed_paths = {}
    /\ inbreeding_coeff = 0
    /\ failed = {}
    /\ result = 0
    /\ raised = FALSE

\* the function at line 27, with the table create_cat_tree has returned
Start(tables) ==
    /\ cat_tree_df \in tables
    /\ cat_id = 1
    /\ pc = "start"
    /\ database = EmptyDb
    /\ tree_data = <<>>
    /\ cat_relationships = <<>>
    /\ record = 0
    /\ tester = IdleTester
    /\ NoCalls
    /\ Unset
    /\ Elsewhere

\* the function at line 23, before the query
InitTree ==
    /\ database \in TreeDbs
    /\ tree_data = <<>>
    /\ cat_relationships = <<>>
    /\ record = 0
    /\ tester = IdleTester
    /\ NoCalls
    /\ cat_tree_df = <<>>
    /\ cat_id = 1
    /\ pc = "call"
    /\ Unset
    /\ Elsewhere

Init == Start(LooseTables \cup PedigreeTables)

InitRepeated ==
    \E df \in PedigreeTables : \E extra \in Replays(df) : Start({df \o extra})

\* test_parent_relationships called on a database and a reference CSV
InitTester ==
    /\ database \in TreeDbs \cup {EmptyDb}
    /\ tester \in {[IdleTester EXCEPT !.pc = "queries", !.ref_data = csv] :
                       csv \in ReferenceCsvs(database)}
    /\ tree_data = <<>>
    /\ cat_relationships = <<>>
    /\ record = 0
    /\ NoCalls
    /\ cat_tree_df = <<>>
    /\ cat_id = 1
    /\ pc = "done"
    /\ Unset
    /\ Elsewhere

\* one call of a memoized dashboard callback, on a cache that is empty or
\* holds an entry an earlier call with the same key has stored
InitMemo ==
    /\ \E args \in ArgLists(MaxArgs) :
       \E ignore \in {{}, {Len(args)} \cap (1 .. Len(args))} :
           /\ memo = Call("update_callback", args, ignore)
           /\ cache \in {ColdCache} \cup
                  {[ColdCache EXCEPT
                        !.entries = {<<MemoizeKey("update_callback", args, ignore), v>>}] :
                       v \in BodyValues}
    /\ parked = <<>>
    /\ database = EmptyDb
    /\ tree_data = <<>>
    /\ cat_relationships = <<>>
    /\ record = 0
    /\ tester = IdleTester
    /\ cat_tree_df = <<>>
    /\ cat_id = 1
    /\ pc = "wait"
    /\ Unset
    /\ Elsewhere

\* the frame of a thread: the subject and the locals of its call, wrapper included
Frame ==
    [cat_tree_df |-> cat_tree_df, cat_id |-> cat_id, pc |-> pc, graph |-> graph,
     mother_id |-> mother_id, father_id |-> father_id,
     common_ancestors |-> common_ancestors, pending |-> pending,
     processed_paths |-> processed_paths, inbreeding_coeff |-> inbreeding_coeff,
     failed |-> failed, result |-> result, raised |-> raised,
     tree_data |-> tree_data, cat_relationships |-> cat_relationships,
     record |-> record, memo |-> memo]

\* the frame of a thread that has called the function for the subject
Called(cat) ==
    [cat_tree_df |-> <<>>, cat_id |-> cat, pc |-> "wait", graph |-> EmptyGraph,
     mother_id |-> NO_PARENT, father_id |-> NO_PARENT,
     common_ancestors |-> {}, pending |-> {},
     processed_paths |-> {}, inbreeding_coeff |-> 0,
     failed |-> {}, result |-> 0, raised |-> FALSE,
     tree_data |-> <<>>, cat_relationships |-> <<>>,
     record |-> 0, memo |-> Call(INBREEDING, <<PyInt(cat)>>, {})]

\* the databases the concurrent calls run on
ConcurrentDbs == {db \in TreeDbs : SingleParents(db)}

\* two threads call the function for different subjects, the second thread
\* not yet running; the cache is empty or holds an entry of an earlier call
InitConcurrent ==
    /\ database \in ConcurrentDbs
    /\ \E other \in TreeIds \ {1} :
           /\ parked = <<Called(other)>>
           /\ cache \in {ColdCache} \cup WarmCaches(database, {1, other})
    /\ cat_id = 1
    /\ memo = Call(INBREEDING, <<PyInt(1)>>, {})
    /\ pc = "wait"
    /\ cat_tree_df = <<>>
    /\ tree_data = <<>>
    /\ cat_relationships = <<>>
    /\ record = 0
    /\ tester = IdleTester
    /\ Unset
    /\ Elsewhere

(***************************************************************************)
(* Steps of calculate_inbreeding_coefficient_modern                        *)
(***************************************************************************)
Finish(value) ==
    /\ result' = value
    /\ pc' = "done"

\* line 23
FetchStep ==
    /\ pc = "call"
    /\ tree_data' \in GetCatFamilyTreeWithPath(database, cat_id, Depth)
    /\ pc' = "tree"
    /\ UNCHANGED <<cache, memo, parked, tester, database, monitor, family, seeder, cat_relationships, record, cat_tree_df, cat_id, graph,
                   mother_id, father_id, common_ancestors, pending, processed_paths,
                   inbreeding_coeff, failed, result, raised>>

\* line 25, create_cat_tree lines 140-143: no records give an empty table
TreeStep ==
    /\ pc = "tree"
    /\ IF tree_data = <<>>
       THEN cat_tree_df' = <<>> /\ pc' = "start" /\ UNCHANGED <<cat_relationships, record>>
       ELSE cat_relationships' = <<>> /\ record' = 1 /\ pc' = "paths"
                /\ UNCHANGED cat_tree_df
    /\ UNCHANGED <<cache, memo, parked, tester, database, monitor, family, seeder, tree_data, cat_id, graph, mother_id, father_id,
                   common_ancestors, pending, processed_paths, inbreeding_coeff,
                   failed, result, raised>>

\* create_cat_tree lines 145-170: one pass of the first loop over the records
PathStep ==
    /\ pc = "paths"
    /\ IF record <= Len(tree_data)
       THEN /\ cat_relationships' = ReadRelationships(cat_relationships, tree_data[record])
            /\ record' = record + 1
            /\ pc' = "paths"
       ELSE /\ record' = 1
            /\ pc' = "nodes"
            /\ UNCHANGED cat_relationships
    /\ UNCHANGED <<cache, memo, parked, tester, database, monitor, family, seeder, tree_data, cat_tree_df, cat_id, graph, mother_id, father_id,
                   common_ancestors, pending, processed_paths, inbreeding_coeff,
                   failed, result, raised>>

\* create_cat_tree lines 172-183: one pass of the second loop over the records,
\* and after the last one the table of the dict's values
NodeStep ==
    /\ pc = "nodes"
    /\ IF record <= Len(tree_data)
       THEN /\ cat_relationships' = ReadNodes(cat_relationships, PathNodes(tree_data[record]))
            /\ record' = record + 1
            /\ pc' = "nodes"
            /\ UNCHANGED cat_tree_df
       ELSE /\ cat_tree_df' = cat_relationships
            /\ pc' = "start"
            /\ UNCHANGED <<cat_relationships, record>>
    /\ UNCHANGED <<cache, memo, parked, tester, database, monitor, family, seeder, tree_data, cat_id, graph, mother_id, father_id,
                   common_ancestors, pending, processed_paths, inbreeding_coeff,
                   failed, result, raised>>

\* lines 27-39: empty table returns 0.0, otherwise the graph is built
BuildStep ==
    /\ pc = "start"
    /\ IF cat_tree_df = <<>>
       THEN /\ Finish(0)
            /\ UNCHANGED graph
       ELSE /\ graph' = BuildGraph(cat_tree_df, EmptyGraph)
            /\ pc' = "lookup"
            /\ UNCHANGED result
    /\ UNCHANGED <<outside, cat_tree_df, cat_id, mother_id, father_id, common_ancestors,
                   pending, processed_paths, inbreeding_coeff, failed, raised>>

\* lines 41-49
LookupStep ==
    /\ pc = "lookup"
    /\ LET found == LookupParents(cat_tree_df, cat_id)
       IN  /\ mother_id' = found.mother
           /\ father_id' = found.father
           /\ IF found.action = "return"
              THEN Finish(found.value) /\ UNCHANGED raised
              ELSE IF found.action = "raise"
              THEN raised' = TRUE /\ pc' = "done" /\ UNCHANGED result
              ELSE pc' = "ancestors" /\ UNCHANGED <<result, raised>>
    /\ UNCHANGED <<outside, cat_tree_df, cat_id, graph, common_ancestors, pending,
                   processed_paths, inbreeding_coeff, failed>>

\* lines 51-63: NetworkXError and an empty intersection both return 0.0
AncestorsStep ==
    /\ pc = "ancestors"
    /\ LET mother_ancestors == Descendants(graph, mother_id)
           father_ancestors == Descendants(graph, father_id)
           common == mother_ancestors.value \cap father_ancestors.value
       IN  IF mother_ancestors.error # "none" \/ father_ancestors.error # "none"
           THEN Finish(0) /\ UNCHANGED <<common_ancestors, pending>>
           ELSE /\ common_ancestors' = common
                /\ IF common = {}
                   THEN Finish(0) /\ UNCHANGED pending
                   ELSE pc' = "loop" /\ pending' = common /\ UNCHANGED result
    /\ UNCHANGED <<outside, cat_tree_df, cat_id, graph, mother_id, father_id,
                   processed_paths, inbreeding_coeff, failed, raised>>

\* (mutant) only the NodeNotFound clause, no generic except clause
HandleNodeNotFoundOnly(error) ==
    IF error = "NodeNotFound" THEN "continue" ELSE "raise"

\* lines 116-125: what each except clause of the loop body does with an error
HandleLoopError(error) ==
    IF error = "NodeNotFound" THEN "continue" ELSE "continue"

\* (mutant) the except clauses leave the loop (break) instead of continuing it
LoopErrorBreak(ancestor, error) ==
    /\ pending' = {}
    /\ failed' = failed \cup {ancestor}
    /\ UNCHANGED <<pc, raised, processed_paths, inbreeding_coeff>>

\* the loop body's exit through an except clause
LoopError(ancestor, error) ==
    /\ pending' = pending \ {ancestor}
    /\ IF HandleLoopError(error) = "continue"
       THEN /\ failed' = failed \cup {ancestor}
            /\ UNCHANGED <<pc, raised>>
       ELSE /\ raised' = TRUE
            /\ pc' = "done"
            /\ UNCHANGED failed
    /\ UNCHANGED <<processed_paths, inbreeding_coeff>>

\* (mutant) the loop stops at the first common ancestor that contributes, as
\* find_first_common_ancestor of the older implementation does
LoopStepFirstOnly(ancestor) ==
    /\ pc = "loop"
    /\ ancestor \in pending
    /\ LET paths_m == AllSimplePaths(graph, mother_id, ancestor)
           paths_f == AllSimplePaths(graph, father_id, ancestor)
           keys == NewKeys(paths_m.value, paths_f.value, processed_paths)
           share == SumContributions(ValidKeys(keys, ancestor, common_ancestors))
       IN  /\ processed_paths' = processed_paths \cup keys
           /\ inbreeding_coeff' = inbreeding_coeff + share
           /\ pending' = IF share > 0 THEN {} ELSE pending \ {ancestor}
           /\ UNCHANGED <<pc, failed, raised>>
    /\ UNCHANGED <<outside, cat_tree_df, cat_id, graph, mother_id, father_id,
                   common_ancestors, result>>

\* (mutant) the contributions summed over every pair in processed_paths, not
\* over the pairs this iteration has added to it
LoopStepSumsProcessed(ancestor) ==
    /\ pc = "loop"
    /\ ancestor \in pending
    /\ LET paths_m == AllSimplePaths(graph, mother_id, ancestor)
           paths_f == AllSimplePaths(graph, father_id, ancestor)
       IN  IF paths_m.error # "none"
           THEN LoopError(ancestor, paths_m.error)
           ELSE IF paths_f.error # "none"
           THEN LoopError(ancestor, paths_f.error)
           ELSE LET keys == NewKeys(paths_m.value, paths_f.value, processed_paths)
                IN  /\ processed_paths' = processed_paths \cup keys
                    /\ inbreeding_coeff' = inbreeding_coeff +
                           SumContributions(ValidKeys(processed_paths \cup keys,
                                                      ancestor, common_ancestors))
                    /\ pending' = pending \ {ancestor}
                    /\ UNCHANGED <<pc, failed, raised>>
    /\ UNCHANGED <<outside, cat_tree_df, cat_id, graph, mother_id, father_id,
                   common_ancestors, result>>

\* lines 65-125: one iteration of the loop over common_ancestors
LoopStep(ancestor) ==
    /\ pc = "loop"
    /\ ancestor \in pending
    /\ LET paths_m == AllSimplePaths(graph, mother_id, ancestor)
           paths_f == AllSimplePaths(graph, father_id, ancestor)
       IN  IF paths_m.error # "none"
           THEN LoopError(ancestor, paths_m.error)
           ELSE IF paths_f.error # "none"
           THEN LoopError(ancestor, paths_f.error)
           ELSE LET keys == NewKeys(paths_m.value, paths_f.value, processed_paths)
                IN  /\ processed_paths' = processed_paths \cup keys
                    /\ inbreeding_coeff' = inbreeding_coeff +
                           SumContributions(ValidKeys(keys, ancestor, common_ancestors))
                    /\ pending' = pending \ {ancestor}
                    /\ UNCHANGED <<pc, failed, raised>>
    /\ UNCHANGED <<outside, cat_tree_df, cat_id, graph, mother_id, father_id,
                   common_ancestors, result>>

\* lines 66-70, 123-125: path enumeration itself raises (the number of simple
\* paths is combinatorial; list(...) of them can exhaust memory), which the
\* generic except clause receives
EnumerationFails(ancestor) ==
    /\ pc = "loop"
    /\ ancestor \in pending
    /\ LoopError(ancestor, "Exception")
    /\ UNCHANGED <<outside, cat_tree_df, cat_id, graph, mother_id, father_id,
                   common_ancestors, result>>

ReturnStep ==
    /\ pc = "loop"
    /\ pending = {}
    /\ Finish(Clamp(inbreeding_coeff))
    /\ UNCHANGED <<outside, cat_tree_df, cat_id, graph, mother_id, father_id, common_ancestors,
                   pending, processed_paths, inbreeding_coeff, failed, raised>>

Iterate == \E ancestor \in pending : LoopStep(ancestor)

Fault == \E ancestor \in pending : EnumerationFails(ancestor)

Next == BuildStep \/ LookupStep \/ AncestorsStep \/ Iterate \/ ReturnStep

Spec == Init /\ [][Next]_vars

\* the same function on tables with repeated records
SpecRepeated == InitRepeated /\ [][Next]_vars

\* the function from its first line: query, create_cat_tree, and the body
NextTree == FetchStep \/ TreeStep \/ PathStep \/ NodeStep \/ Next

SpecTree == InitTree /\ [][NextTree]_vars

(***************************************************************************)
(* RelationshipTester.test_parent_relationships                            *)
(***************************************************************************)
\* MATCH (c:Cat) OPTIONAL MATCH (c)-[r:type]->(p:Cat)
\* RETURN c.id, COALESCE(p.id, -1): a row per cat and parent, and a row with
\* -1 for a cat without one.  A frame is the set of its rows: the test uses
\* nothing but .empty and set(zip(...)) of it.
LoadRelationshipData(db, type) ==
    {<<r[1], r[3]>> : r \in {x \in db.rels : x[2] = type /\ x[1] \in db.cats /\ x[3] \in db.cats}}
        \cup {<<c, NO_PARENT>> : c \in {x \in db.cats : ParentsIn(db, x, type) = {}}}

\* set(zip(ref_data["cat_id"], ref_data[column]))
RefFatherSet(ref) == {<<ref[i].cat_id, ref[i].father_id>> : i \in 1 .. Len(ref)}

RefMotherSet(ref) == {<<ref[i].cat_id, ref[i].mother_id>> : i \in 1 .. Len(ref)}

TesterUnchanged ==
    UNCHANGED <<invocation, database, tree_data, cat_relationships, record, cache, memo, parked,
                monitor, family, seeder>>

\* lines 96-112: the two queries; an empty frame ends the test with False
QueriesStep ==
    /\ tester.pc = "queries"
    /\ LET father_df == LoadRelationshipData(database, "HAS_FATHER")
           mother_df == LoadRelationshipData(database, "HAS_MOTHER")
       IN  IF father_df = {} \/ mother_df = {}
           THEN tester' = [tester EXCEPT !.father_df = father_df, !.mother_df = mother_df,
                                         !.printed = @ \cup {"not found"},
                                         !.pc = "done", !.result = FALSE]
           ELSE tester' = [tester EXCEPT !.father_df = father_df, !.mother_df = mother_df,
                                         !.pc = "reference"]
    /\ TesterUnchanged

\* lines 114-120: an empty reference ends the test with False
ReferenceStep ==
    /\ tester.pc = "reference"
    /\ IF tester.ref_data = <<>>
       THEN tester' = [tester EXCEPT !.printed = @ \cup {"reference empty"},
                                     !.pc = "done", !.result = FALSE]
       ELSE tester' = [tester EXCEPT !.pc = "father"]
    /\ TesterUnchanged

\* lines 122-133: father_match = True; the comparison goes to match, which
\* decides only what is printed
FatherStep ==
    /\ tester.pc = "father"
    /\ LET match == tester.father_df = RefFatherSet(tester.ref_data)
       IN  tester' = [tester EXCEPT !.father_match = TRUE,
                                    !.printed = IF match THEN @ ELSE @ \cup {"father failed"},
                                    !.pc = "mother"]
    /\ TesterUnchanged

\* lines 136-147: the same for the mothers
MotherStep ==
    /\ tester.pc = "mother"
    /\ LET match == tester.mother_df = RefMotherSet(tester.ref_data)
       IN  tester' = [tester EXCEPT !.mother_match = TRUE,
                                    !.printed = IF match THEN @ ELSE @ \cup {"mother failed"},
                                    !.pc = "result"]
    /\ TesterUnchanged

\* lines 150-154
ResultStep ==
    /\ tester.pc = "result"
    /\ LET both == tester.father_match /\ tester.mother_match
       IN  tester' = [tester EXCEPT !.printed = IF both THEN @ \cup {"passed"} ELSE @,
                                    !.pc = "done", !.result = both]
    /\ TesterUnchanged

NextTester == QueriesStep \/ ReferenceStep \/ FatherStep \/ MotherStep \/ ResultStep

SpecTester == InitTester /\ [][NextTester]_vars

(***************************************************************************)
(* Calls through CacheManager.memoize, and threads                         *)
(***************************************************************************)
MemoUnchanged ==
    UNCHANGED <<database, tester, parked, monitor, family, seeder, cat_tree_df, cat_id, graph, mother_id, father_id,
                common_ancestors, pending, processed_paths, inbreeding_coeff, failed,
                result, raised, tree_data, cat_relationships, record>>

\* cache.py lines 93-101, up to the call of the body.  Without a cache the
\* function is called directly.  With one, Cache.memoize calls the function
\* without reading or storing when unless(f, *args, **kwargs) is True;
\* otherwise it looks the key up and returns what it finds.
WrapperStep ==
    /\ memo.pc = "enter"
    /\ LET key == MemoizeKey(memo.func, memo.args, memo.ignore)
           route == IF ~cache.initialised THEN "direct"
                    ELSE IF SkipCacheWhenDbUnhealthy(memo.func, memo.args) THEN "bypass"
                    ELSE IF Cached(cache.entries, key) # {} THEN "hit"
                    ELSE "miss"
       IN  /\ IF route = "hit"
              THEN memo' = [memo EXCEPT !.route = route, !.pc = "returned",
                                        !.value = CHOOSE v \in Cached(cache.entries, key) : TRUE]
              ELSE memo' = [memo EXCEPT !.route = route, !.pc = "body"]
           /\ pc' = IF route # "hit" /\ memo.func = INBREEDING THEN "call" ELSE pc
    /\ UNCHANGED cache
    /\ MemoUnchanged

\* the body of a dashboard callback: it returns what it computes
BodyStep ==
    /\ memo.pc = "body"
    /\ memo.func # INBREEDING
    /\ \E v \in BodyValues : memo' = [memo EXCEPT !.value = v, !.pc = "after"]
    /\ UNCHANGED <<cache, pc>>
    /\ MemoUnchanged

\* the body of calculate_inbreeding_coefficient_modern has returned or raised
BodyReturns ==
    /\ memo.pc = "body"
    /\ memo.func = INBREEDING
    /\ pc = "done"
    /\ memo' = IF raised THEN [memo EXCEPT !.pc = "raised"]
               ELSE [memo EXCEPT !.value = result, !.pc = "after"]
    /\ UNCHANGED <<cache, pc>>
    /\ MemoUnchanged

\* Cache.memoize after the body: a looked-up call stores the value under its key
StoreStep ==
    /\ memo.pc = "after"
    /\ memo' = [memo EXCEPT !.pc = "returned"]
    /\ cache' = IF memo.route = "miss"
                THEN [cache EXCEPT !.entries =
                          Stored(@, MemoizeKey(memo.func, memo.args, memo.ignore), memo.value)]
                ELSE cache
    /\ UNCHANGED pc
    /\ MemoUnchanged

\* a thread whose call has not ended
Runnable(frame) == frame.memo.pc \notin {"idle", "returned", "raised"}

\* the scheduler parks the running thread and resumes a parked one
Switch ==
    /\ parked # <<>>
    /\ Runnable(parked[1])
    /\ parked' = <<Frame>>
    /\ cat_tree_df' = parked[1].cat_tree_df
    /\ cat_id' = parked[1].cat_id
    /\ pc' = parked[1].pc
    /\ graph' = parked[1].graph
    /\ mother_id' = parked[1].mother_id
    /\ father_id' = parked[1].father_id
    /\ common_ancestors' = parked[1].common_ancestors
    /\ pending' = parked[1].pending
    /\ processed_paths' = parked[1].processed_paths
    /\ inbreeding_coeff' = parked[1].inbreeding_coeff
    /\ failed' = parked[1].failed
    /\ result' = parked[1].result
    /\ raised' = parked[1].raised
    /\ tree_data' = parked[1].tree_data
    /\ cat_relationships' = parked[1].cat_relationships
    /\ record' = parked[1].record
    /\ memo' = parked[1].memo
    /\ UNCHANGED <<database, cache, tester, monitor, family, seeder>>

NextMemo == WrapperStep \/ BodyStep \/ StoreStep

SpecMemo == InitMemo /\ [][NextMemo]_vars

NextConcurrent == WrapperStep \/ BodyReturns \/ StoreStep \/ Switch \/ NextTree

SpecConcurrent == InitConcurrent /\ [][NextConcurrent]_vars

\* the same function with path enumeration allowed to raise
NextFaults == Next \/ Fault

SpecFaults == Init /\ [][NextFaults]_vars

\* the function is sequential code: while a statement remains, one is executed
SpecFair == Init /\ [][NextFaults]_vars /\ WF_vars(NextFaults)

(***************************************************************************)
(* The database monitor and the browser sessions                           *)
(***************************************************************************)
\* app.py line 43 at start-up, on a database in any condition; no page is open
InitMonitor ==
    /\ \E condition \in DbConditions : monitor = StartedMonitor(condition)
    /\ family = IdleFamily
    /\ seeder = IdleSeeder
    /\ database = EmptyDb
    /\ tree_data = <<>>
    /\ cat_relationships = <<>>
    /\ record = 0
    /\ tester = IdleTester
    /\ NoCalls
    /\ cat_tree_df = <<>>
    /\ cat_id = 1
    /\ pc = "done"
    /\ Unset

MonitorUnchanged ==
    UNCHANGED <<invocation, database, tree_data, cat_relationships, record, tester, cache,
                memo, parked, family, seeder>>

\* a browser loads (or loads again) the page: it gets the layout made at start-up
LoadPage(s) ==
    /\ monitor.sessions[s].pc \in {"closed", "idle"}
    /\ monitor.events < MaxEvents
    /\ monitor' = [monitor EXCEPT !.sessions[s] = LoadedPage(monitor.db_healthy),
                                  !.events = @ + 1]
    /\ MonitorUnchanged

\* the database's condition changes
DbChanges ==
    /\ monitor.events < MaxEvents
    /\ \E condition \in DbConditions \ {monitor.condition} :
           monitor' = [monitor EXCEPT !.condition = condition, !.events = @ + 1]
    /\ MonitorUnchanged

\* db-check-interval fires in a session; line 43
ObserveStep(s) ==
    /\ monitor.sessions[s].pc = "idle"
    /\ monitor.events < MaxEvents
    /\ monitor' = [monitor EXCEPT
                       !.sessions[s].pc = "checking",
                       !.sessions[s].is_connected = CheckConnection(monitor.condition),
                       !.events = @ + 1]
    /\ MonitorUnchanged

\* lines 46-73, and the session taking the outputs
DecideStep(s) ==
    /\ monitor.sessions[s].pc = "checking"
    /\ LET is_connected == monitor.sessions[s].is_connected
           outputs == CheckDbConnection(monitor.previous_connection_state, is_connected)
       IN  monitor' = [monitor EXCEPT
                           !.previous_connection_state = outputs.previous,
                           !.sessions[s].pc = "idle",
                           !.sessions[s].color = outputs.color,
                           !.sessions[s].style = outputs.style,
                           !.sessions[s].store = Updated(@, outputs.data),
                           !.checks = @ + 1,
                           !.writes = IF outputs.data = NoUpdate THEN @ ELSE @ + 1,
                           !.last_result = is_connected]
    /\ MonitorUnchanged

NextMonitor ==
    \/ DbChanges
    \/ \E s \in Sessions : LoadPage(s) \/ ObserveStep(s) \/ DecideStep(s)

SpecMonitor == InitMonitor /\ [][NextMonitor]_vars

(***************************************************************************)
(* connect_to_neo4j                                                        *)
(***************************************************************************)
\* the call, with or without RUNNING_IN_DOCKER and with any config.json
InitSeeder ==
    /\ \E is_docker \in BOOLEAN, found \in BOOLEAN,
          keys \in SUBSET {"graph_database", "graph_database_docker"} :
           seeder = [IdleSeeder EXCEPT !.pc = "config", !.is_docker = is_docker,
                                       !.config = [found |-> found, keys |-> keys]]
    /\ monitor = IdleMonitor
    /\ family = IdleFamily
    /\ database = EmptyDb
    /\ tree_data = <<>>
    /\ cat_relationships = <<>>
    /\ record = 0
    /\ tester = IdleTester
    /\ NoCalls
    /\ cat_tree_df = <<>>
    /\ cat_id = 1
    /\ pc = "done"
    /\ Unset

SeederUnchanged ==
    UNCHANGED <<invocation, database, tree_data, cat_relationships, record, tester, cache,
                memo, parked, monitor, family>>

\* lines 35-51: sys.exit(1) when the configuration cannot be read
ConfigStep ==
    /\ seeder.pc = "config"
    /\ seeder' = IF ConfigLoads(seeder.config, seeder.is_docker)
                 THEN [seeder EXCEPT !.pc = "attempt", !.attempt = 0]
                 ELSE [seeder EXCEPT !.pc = "exited", !.exit_status = 1]
    /\ SeederUnchanged

\* lines 53-68: one pass of the loop, the database answering or not; after the
\* last pass the function would return None
AttemptStep ==
    /\ seeder.pc = "attempt"
    /\ \E connects \in BOOLEAN :
           LET outcome == AttemptOutcome(seeder.attempt, connects)
               made == [seeder EXCEPT !.attempts = @ + 1,
                                      !.failures = IF connects THEN @ ELSE @ + 1]
               next == IF seeder.attempt + 1 < retries
                       THEN [made EXCEPT !.attempt = @ + 1, !.slept = @ + 1]
                       ELSE [made EXCEPT !.pc = "returned", !.slept = @ + 1]
           IN  seeder' =
                   IF outcome = "return"
                   THEN [made EXCEPT !.pc = "returned", !.driver = made.attempts]
                   ELSE IF outcome = "sleep" THEN next
                   ELSE IF outcome = "print and sleep"
                   THEN [next EXCEPT !.printed = @ + 1]
                   ELSE [made EXCEPT !.pc = "exited", !.exit_status = 1,
                                     !.printed = @ + 1]
    /\ SeederUnchanged

NextSeeder == ConfigStep \/ AttemptStep

SpecSeeder == InitSeeder /\ [][NextSeeder]_vars

(***************************************************************************)
(* Calls of update_family_tree                                             *)
(***************************************************************************)
\* calls of update_family_tree that are followed, one after another
MaxCalls == 2

\* the databases the callback runs on: the subject with both parents, who may
\* have parents themselves
FamilyDbs ==
    {db \in ConcurrentDbs :
        /\ ParentsIn(db, 1, "HAS_MOTHER") = {2}
        /\ ParentsIn(db, 1, "HAS_FATHER") = {3}
        /\ \A r \in db.rels : r[1] \in {1, 2, 3}}

\* the arguments Dash passes: n_clicks None until the button is clicked, the
\* data of selected-cat-store, the depth input and the data of
\* db-connection-state
FamilyArgs ==
    {<<n_clicks, selected_cat, PyInt(depth), DbConnectionState(healthy)>> :
        n_clicks \in {PyNone, PyInt(1)},
        selected_cat \in {PyNone, SelectedCat(1)},
        depth \in {1, 2},
        healthy \in {"True", "False"}}

\* the server with an empty cache and no call under way
InitFamily ==
    /\ database \in FamilyDbs
    /\ family = IdleFamily
    /\ monitor = IdleMonitor
    /\ seeder = IdleSeeder
    /\ tree_data = <<>>
    /\ cat_relationships = <<>>
    /\ record = 0
    /\ tester = IdleTester
    /\ NoCalls
    /\ cat_tree_df = <<>>
    /\ cat_id = 1
    /\ pc = "done"
    /\ Unset

\* what update_family_tree leaves alone when the function of line 334 is not running
FamilyUnchanged ==
    UNCHANGED <<invocation, database, tree_data, cat_relationships, record, tester,
                memo, parked, monitor, seeder>>

\* Dash calls the callback
CallStep ==
    /\ family.pc \in {"idle", "returned"}
    /\ family.calls < MaxCalls
    /\ \E args \in FamilyArgs : family' = FamilyCall(args, family.calls + 1)
    /\ UNCHANGED cache
    /\ FamilyUnchanged

\* cache.py lines 93-101 around update_family_tree, up to the call of the body
FamilyWrapperStep ==
    /\ family.pc = "enter"
    /\ LET key == MemoizeKey(UPDATE_FAMILY_TREE, family.args, FamilyIgnored)
           route == IF ~cache.initialised THEN "direct"
                    ELSE IF SkipCacheWhenDbUnhealthy(UPDATE_FAMILY_TREE, family.args)
                    THEN "bypass"
                    ELSE IF Cached(cache.entries, key) # {} THEN "hit"
                    ELSE "miss"
       IN  family' = IF route = "hit"
                     THEN [family EXCEPT !.route = route, !.pc = "returned",
                                         !.value = CHOOSE v \in Cached(cache.entries, key) : TRUE]
                     ELSE [family EXCEPT !.route = route, !.pc = "body"]
    /\ UNCHANGED cache
    /\ FamilyUnchanged

\* lines 283-334: the early responses, the query, and the call of
\* calculate_inbreeding_coefficient_modern(cat_id)
FamilyBodyStep ==
    /\ family.pc = "body"
    /\ LET early == EarlyResponse(family.args[1], family.args[2], family.args[4])
           cat == IdOf(Get(family.args[2], "id", "1"))
       IN  IF early.returns
           THEN /\ family' = [family EXCEPT !.value = early.value, !.pc = "after"]
                /\ UNCHANGED <<invocation, tree_data, cat_relationships, record, memo>>
           ELSE \E raw_tree_data \in GetCatFamilyTree(database, cat, family.args[3].val) :
                    IF raw_tree_data = <<>>
                    THEN /\ family' = [family EXCEPT !.value = NoFamilyData, !.pc = "after"]
                         /\ UNCHANGED <<invocation, tree_data, cat_relationships, record, memo>>
                    ELSE /\ family' = [family EXCEPT !.raw_tree_data = raw_tree_data,
                                                     !.pc = "coefficient"]
                         /\ memo' = Call(INBREEDING, <<PyInt(cat)>>, {})
                         /\ cat_id' = cat
                         /\ pc' = "wait"
                         /\ UNCHANGED <<cat_tree_df, graph, mother_id, father_id,
                                        common_ancestors, pending, processed_paths,
                                        inbreeding_coeff, failed, result, raised,
                                        tree_data, cat_relationships, record>>
    /\ UNCHANGED <<cache, database, tester, parked, monitor, seeder>>

\* the call of line 334 raises
CoefficientRaises ==
    /\ family.pc = "coefficient"
    /\ memo.pc \in {"enter", "body", "after"}
    /\ memo' = [memo EXCEPT !.pc = "raised"]
    /\ UNCHANGED <<cache, family, invocation, database, tree_data, cat_relationships,
                   record, tester, parked, monitor, seeder>>

\* lines 333-347: the coefficient, or None after an exception, and the page;
\* the frame of the call of line 334 is gone
FamilyRenderStep ==
    /\ family.pc = "coefficient"
    /\ memo.pc \in {"returned", "raised"}
    /\ LET inbreeding_coefficient ==
               IF memo.pc = "raised" THEN PyNone ELSE PyFloat(memo.value)
           html_content ==
               CreateFamilyTreeNetwork(family.raw_tree_data, cat_id, inbreeding_coefficient)
       IN  family' = [family EXCEPT !.inbreeding_coefficient = inbreeding_coefficient,
                                    !.value = Response(html_content, "", "default"),
                                    !.pc = "after"]
    /\ memo' = IdleMemo
    /\ cat_tree_df' = <<>>
    /\ cat_id' = 1
    /\ pc' = "done"
    /\ graph' = EmptyGraph
    /\ mother_id' = NO_PARENT
    /\ father_id' = NO_PARENT
    /\ common_ancestors' = {}
    /\ pending' = {}
    /\ processed_paths' = {}
    /\ inbreeding_coeff' = 0
    /\ failed' = {}
    /\ result' = 0
    /\ raised' = FALSE
    /\ tree_data' = <<>>
    /\ cat_relationships' = <<>>
    /\ record' = 0
    /\ UNCHANGED <<cache, database, tester, parked, monitor, seeder>>

\* Cache.memoize after the body of update_family_tree
FamilyStoreStep ==
    /\ family.pc = "after"
    /\ family' = [family EXCEPT !.pc = "returned"]
    /\ cache' = IF family.route = "miss"
                THEN [cache EXCEPT !.entries =
                          Stored(@, MemoizeKey(UPDATE_FAMILY_TREE, family.args, FamilyIgnored),
                                 family.value)]
                ELSE cache
    /\ FamilyUnchanged

NextFamily ==
    \/ CallStep \/ FamilyWrapperStep \/ FamilyBodyStep \/ CoefficientRaises
    \/ FamilyRenderStep \/ FamilyStoreStep
    \/ WrapperStep \/ BodyReturns \/ StoreStep \/ NextTree

SpecFamily == InitFamily /\ [][NextFamily]_vars

(***************************************************************************)
(* The pedigree as the table states it, independently of the graph code     *)
(***************************************************************************)
Returned == pc = "done" /\ ~raised

RecordedParents(df, x) ==
    {df[i].mother_id : i \in {j \in 1 .. Len(df) : df[j].cat_id = x}} \cup
    {df[i].father_id : i \in {j \in 1 .. Len(df) : df[j].cat_id = x}}

ParentsOf(df, x) == RecordedParents(df, x) \ {NO_PARENT}

RECURSIVE AncestorClosure(_, _, _)
AncestorClosure(df, found, rounds) ==
    IF rounds = 0 THEN found
    ELSE AncestorClosure(df, found \cup UNION {ParentsOf(df, x) : x \in found}, rounds - 1)

\* the individuals reachable from x by one or more parent links
AncestorsOf(df, x) == AncestorClosure(df, ParentsOf(df, x), NumIds)

Acyclic(df) == \A x \in Ids : x \notin AncestorsOf(df, x)

OneRowEach(df) == \A i, j \in 1 .. Len(df) : df[i].cat_id = df[j].cat_id => i = j

HasRow(df, x) == \E i \in 1 .. Len(df) : df[i].cat_id = x

RowOf(df, x) == df[CHOOSE i \in 1 .. Len(df) : df[i].cat_id = x /\ \A j \in 1 .. i - 1 : df[j].cat_id # x]

SubjectMother == RowOf(cat_tree_df, cat_id).mother_id

SubjectFather == RowOf(cat_tree_df, cat_id).father_id

BothParentsRecorded ==
    /\ HasRow(cat_tree_df, cat_id)
    /\ SubjectMother # NO_PARENT
    /\ SubjectFather # NO_PARENT

SharedAncestors == AncestorsOf(cat_tree_df, SubjectMother) \cap AncestorsOf(cat_tree_df, SubjectFather)

\* the parent-link paths from the last node of path to target that repeat no individual
RECURSIVE LineagePaths(_, _, _)
LineagePaths(df, path, target) ==
    IF path[Len(path)] = target /\ Len(path) > 1 THEN {path}
    ELSE UNION {LineagePaths(df, Append(path, x), target) :
                    x \in ParentsOf(df, path[Len(path)]) \ SeqToSet(path)}

Lineages(df, from, to) == LineagePaths(df, <<from>>, to)

RECURSIVE HalfPowers(_)
HalfPowers(pairs) ==
    IF pairs = {} THEN 0
    ELSE LET k == CHOOSE x \in pairs : TRUE
         IN  (ONE \div Pow2(Len(k[1]) + Len(k[2]) - 1)) + HalfPowers(pairs \ {k})

\* Wright's path-counting sum with ancestor coefficients 0: over every shared
\* ancestor a and every pair of lineages to a that meet only in a
WrightPairs ==
    UNION {{<<p, q>> : p \in Lineages(cat_tree_df, SubjectMother, a),
                       q \in Lineages(cat_tree_df, SubjectFather, a)} :
           a \in SharedAncestors}

WrightDisjointPairs ==
    {k \in WrightPairs : SeqToSet(k[1]) \cap SeqToSet(k[2]) = {k[1][Len(k[1])]}}

WrightSum == HalfPowers(WrightDisjointPairs)

(***************************************************************************)
(* Claims                                                                  *)
(***************************************************************************)
\* C1: whatever the records and the subject, the value returned lies in the
\* closed interval [0.0, 1.0].
C1_ResultInUnitInterval == Returned => (0 <= result /\ result <= ONE)

C1_Witness ==
    /\ Returned
    /\ Acyclic(cat_tree_df)
    /\ Cardinality(common_ancestors) >= 2
    /\ result > 0
    /\ result < ONE

\* C2: on an acyclic pedigree with at most one mother and one father per
\* individual and both parents of the subject recorded, the value returned is
\* Wright's sum over the pairs of lineages that meet only in the shared ancestor.
\* (Stated for the plainest pedigrees: the parents are two individuals and
\* neither descends from the other.)
UnrelatedByDescent ==
    /\ SubjectMother # SubjectFather
    /\ SubjectMother \notin AncestorsOf(cat_tree_df, SubjectFather)
    /\ SubjectFather \notin AncestorsOf(cat_tree_df, SubjectMother)

C2_EqualsWrightSum ==
    (Returned /\ OneRowEach(cat_tree_df) /\ Acyclic(cat_tree_df) /\ BothParentsRecorded
        /\ UnrelatedByDescent)
        => result = WrightSum

\* C3: a subject whose record lacks the mother or lacks the father gets exactly
\* 0.0, whatever the other records hold.
C3_MissingParentGivesZero ==
    (pc = "done" /\ HasRow(cat_tree_df, cat_id)
        /\ (SubjectMother = NO_PARENT \/ SubjectFather = NO_PARENT))
        => (~raised /\ result = 0)

C3_Witness ==
    /\ Returned
    /\ HasRow(cat_tree_df, cat_id)
    /\ SubjectMother = NO_PARENT
    /\ SubjectFather # NO_PARENT
    /\ cat_id \notin AncestorsOf(cat_tree_df, cat_id)
    /\ Cardinality(AncestorsOf(cat_tree_df, SubjectFather)) >= 2
    /\ result = 0

\* C4: when no individual is reachable by one or more parent links from both
\* the mother and the father, the value returned is exactly 0.0.
C4_DisjointAncestorsGiveZero ==
    (pc = "done" /\ BothParentsRecorded /\ SharedAncestors = {})
        => (~raised /\ result = 0)

C4_Witness ==
    /\ Returned
    /\ BothParentsRecorded
    /\ SubjectMother # SubjectFather
    /\ Cardinality(AncestorsOf(cat_tree_df, SubjectMother)) >= 2
    /\ AncestorsOf(cat_tree_df, SubjectFather) # {}
    /\ SharedAncestors = {}
    /\ result = 0

\* C5: on an acyclic pedigree where the mother and the father are distinct and
\* have the same two recorded parents A # B, the value returned is exactly 0.25,
\* whatever ancestors A and B have.
FullSiblingParents ==
    /\ BothParentsRecorded
    /\ SubjectMother # SubjectFather
    /\ Cardinality(ParentsOf(cat_tree_df, SubjectMother)) = 2
    /\ NO_PARENT \notin RecordedParents(cat_tree_df, SubjectMother)
    /\ NO_PARENT \notin RecordedParents(cat_tree_df, SubjectFather)
    /\ ParentsOf(cat_tree_df, SubjectMother) = ParentsOf(cat_tree_df, SubjectFather)

C5_FullSiblingsGiveQuarter ==
    (Returned /\ OneRowEach(cat_tree_df) /\ Acyclic(cat_tree_df) /\ FullSiblingParents)
        => result = ONE \div 4

C5_Witness ==
    /\ Returned
    /\ Acyclic(cat_tree_df)
    /\ FullSiblingParents
    /\ \E a \in ParentsOf(cat_tree_df, SubjectMother) :
           \E b \in ParentsOf(cat_tree_df, SubjectMother) \ {a} :
               AncestorsOf(cat_tree_df, a) \cap AncestorsOf(cat_tree_df, b) # {}
    /\ result = ONE \div 4

\* C6: when the mother and the father have exactly one shared ancestor, reached
\* by exactly one lineage of n1 links from the mother and exactly one of n2 links
\* from the father, the value returned is exactly 0.5^(n1+n2+1); a single shared
\* grandparent (n1 = n2 = 2) gives 0.03125 = 1/32.
SingleSharedLineage ==
    /\ BothParentsRecorded
    /\ Cardinality(SharedAncestors) = 1
    /\ \A a \in SharedAncestors :
           /\ Cardinality(Lineages(cat_tree_df, SubjectMother, a)) = 1
           /\ Cardinality(Lineages(cat_tree_df, SubjectFather, a)) = 1

\* the number of links of the one lineage from an individual to the one shared ancestor
LinksFrom(parent) ==
    LET a == CHOOSE x \in SharedAncestors : TRUE
        p == CHOOSE x \in Lineages(cat_tree_df, parent, a) : TRUE
    IN  Len(p) - 1

C6_SingleLineagePair ==
    (Returned /\ OneRowEach(cat_tree_df) /\ SingleSharedLineage)
        => result = ONE \div Pow2(LinksFrom(SubjectMother) + LinksFrom(SubjectFather) + 1)

C6_Witness ==
    /\ Returned
    /\ SingleSharedLineage
    /\ LinksFrom(SubjectMother) = 2
    /\ LinksFrom(SubjectFather) = 2
    /\ result = ONE \div 32

\* the common ancestors taken in ascending order, one loop iteration each
RECURSIVE InOrderTotal(_, _, _)
InOrderTotal(ancestors, processed, total) ==
    IF ancestors = {} THEN total
    ELSE LET a == CHOOSE x \in ancestors : \A y \in ancestors : x <= y
             keys == NewKeys(AllSimplePaths(graph, mother_id, a).value,
                             AllSimplePaths(graph, father_id, a).value, processed)
         IN  InOrderTotal(ancestors \ {a}, processed \cup keys,
                          total + SumContributions(ValidKeys(keys, a, common_ancestors)))

\* C7: the value returned is fixed by the records and the subject: whatever
\* order the loop takes the common ancestors in, it returns the value that
\* taking them in ascending order returns.
C7_OrderIndependent ==
    (Returned /\ common_ancestors # {})
        => result = Clamp(InOrderTotal(common_ancestors, {}, 0))

C7_Witness ==
    /\ Returned
    /\ Cardinality(common_ancestors) >= 3
    /\ Cardinality(processed_paths) >= 4
    /\ result > 0

\* C8: no exception leaves the function, whatever the table (a parent without
\* a row of its own included) and whether or not path enumeration raises: the
\* caller gets a number.
C8_NeverRaises == ~raised /\ (pc = "done" => result \in Int)

C8_Witness ==
    /\ Returned
    /\ \E a \in common_ancestors : ~HasRow(cat_tree_df, a)
    /\ failed # {}
    /\ failed # common_ancestors
    /\ result > 0

\* what one common ancestor adds when its paths are enumerated
AncestorShare(a) ==
    SumContributions(ValidKeys(AllSimplePaths(graph, mother_id, a).value
                                   \X AllSimplePaths(graph, father_id, a).value,
                               a, common_ancestors))

RECURSIVE SumShares(_)
SumShares(ancestors) ==
    IF ancestors = {} THEN 0
    ELSE LET a == CHOOSE x \in ancestors : TRUE
         IN  AncestorShare(a) + SumShares(ancestors \ {a})

\* C9: a common ancestor whose path enumeration fails adds nothing, and the
\* others are still processed: the value returned is the clamped sum of what
\* the other common ancestors add.
C9_FailedAncestorSkipped ==
    (pc = "done" /\ common_ancestors # {})
        => (~raised /\ result = Clamp(SumShares(common_ancestors \ failed)))

C9_Witness ==
    /\ Returned
    /\ failed # {}
    /\ \E a \in failed : AncestorShare(a) > 0
    /\ result > 0

\* C10: the computation ends on every table, cyclic ones included, and no
\* enumerated path visits an individual twice.
NoRepeat(p) == \A i, j \in 1 .. Len(p) : p[i] = p[j] => i = j

PathsRepeatNoNode ==
    \A k \in processed_paths : NoRepeat(k[1]) /\ NoRepeat(k[2])

\* statements executed so far, as a rank of the position in the body
Rank(position) ==
    CASE position = "start" -> 0
      [] position = "lookup" -> 1
      [] position = "ancestors" -> 2
      [] position = "loop" -> 3
      [] position = "done" -> 4

\* a step moves to a later position, or stays in the loop with one common
\* ancestor fewer to take
Advances ==
    \/ Rank(pc') > Rank(pc)
    \/ pc' = pc /\ Cardinality(pending') < Cardinality(pending)

\* Every step advances and a step is possible until the function has ended, so
\* a run has at most 4 + |common_ancestors| steps.
C10_Terminates ==
    /\ [](PathsRepeatNoNode /\ (pc = "done" \/ ENABLED NextFaults))
    /\ [][Advances]_vars

\* the same under SpecFair, as a liveness property
C10_EventuallyDone == <>(pc = "done")

C10_Witness ==
    /\ pc = "done"
    /\ \E k \in processed_paths :
           \E i \in 1 .. Len(k[1]) : k[1][i] \in AncestorsOf(cat_tree_df, k[1][i])
    /\ result > 0

\* the records of a table, each once, in the order of their first occurrence
RECURSIVE Distinct(_, _)
Distinct(df, seen) ==
    IF df = <<>> THEN <<>>
    ELSE IF Head(df) \in seen THEN Distinct(Tail(df), seen)
    ELSE <<Head(df)>> \o Distinct(Tail(df), seen \cup {Head(df)})

GraphBuilt == pc \notin {"start"} /\ cat_tree_df # <<>>

\* C11: the graph built from a table with repeated records has the node set and
\* the edge set of the graph built from the same records taken once each, and
\* holds every child-to-parent edge once.
C11_RepeatedRecordsSameGraph ==
    GraphBuilt =>
        LET once == BuildGraph(Distinct(cat_tree_df, {}), EmptyGraph)
        IN  /\ graph.nodes = once.nodes
            /\ graph.edges = once.edges
            /\ \A e \in graph.edges : graph.copies[e] = 1

C11_Witness ==
    /\ Returned
    /\ \E i, j \in 1 .. Len(cat_tree_df) :
           /\ i < j
           /\ cat_tree_df[i] = cat_tree_df[j]
           /\ cat_tree_df[i].mother_id # NO_PARENT
           /\ cat_tree_df[i].father_id # NO_PARENT
    /\ Cardinality(graph.edges) >= 4
    /\ result > 0

\* the individuals a table names: as the child of a record, as a mother, as a father
Children(df) == {df[i].cat_id : i \in 1 .. Len(df)}

NamedParents(df) ==
    ({df[i].mother_id : i \in 1 .. Len(df)} \cup {df[i].father_id : i \in 1 .. Len(df)})
        \ {NO_PARENT}

\* the children of the records that name a mother or a father
LinkedChildren(df) ==
    {df[i].cat_id : i \in {j \in 1 .. Len(df) :
                               df[j].mother_id # NO_PARENT \/ df[j].father_id # NO_PARENT}}

\* C12 (as stated): after the graph is built, every individual that appears in
\* any record, as child, mother or father, is a node of the graph, a child
\* with neither parent recorded and named by nobody as a parent included.
C12_EveryRecordedIndividualIsNode ==
    GraphBuilt => (Children(cat_tree_df) \cup NamedParents(cat_tree_df)) \subseteq graph.nodes

\* C12 (amended): after the graph is built, its nodes are exactly the
\* individuals at either end of a recorded parent link: the children of the
\* records that name a mother or a father, and the mothers and fathers named.
\* A child with neither parent recorded whom no record names as a parent is
\* not a node.
C12_NodesAreLinkedIndividuals ==
    GraphBuilt => graph.nodes = LinkedChildren(cat_tree_df) \cup NamedParents(cat_tree_df)

C12_Witness ==
    /\ Returned
    /\ \E x \in Children(cat_tree_df) \ (LinkedChildren(cat_tree_df) \cup NamedParents(cat_tree_df)) :
           x \notin graph.nodes
    /\ \E x \in NamedParents(cat_tree_df) \ LinkedChildren(cat_tree_df) :
           x \in Children(cat_tree_df) /\ x \in graph.nodes

\* C13: on an empty table, and on a table with no record for the subject, the
\* function returns 0.0 and raises nothing.
C13_NoSubjectRecordGivesZero ==
    (pc = "done" /\ ~HasRow(cat_tree_df, cat_id)) => (~raised /\ result = 0)

C13_Witness ==
    /\ Returned
    /\ cat_tree_df # <<>>
    /\ ~HasRow(cat_tree_df, cat_id)
    /\ cat_id \in graph.nodes
    /\ Cardinality(graph.edges) >= 2
    /\ result = 0

\* the ancestors of the mother other than herself that are also ancestors of
\* the father other than himself
CommonAncestorSet ==
    (AncestorsOf(cat_tree_df, SubjectMother) \ {SubjectMother})
        \cap (AncestorsOf(cat_tree_df, SubjectFather) \ {SubjectFather})

\* no common ancestor other than the last node of p occurs before the last node
ClearOfOthers(p) ==
    \A i \in 1 .. Len(p) - 1 : p[i] \notin CommonAncestorSet \ {p[Len(p)]}

LineagePairs ==
    UNION {Lineages(cat_tree_df, SubjectMother, a) \X Lineages(cat_tree_df, SubjectFather, a) :
           a \in CommonAncestorSet}

QualifyingPairs == {k \in LineagePairs : ClearOfOthers(k[1]) /\ ClearOfOthers(k[2])}

\* C17: with both parents recorded and at least one common ancestor, the value
\* returned is min(1.0, S), S the sum of 0.5^(n1+n2+1) over every common
\* ancestor a and every pair of a simple path mother-to-a of n1 links and a
\* simple path father-to-a of n2 links in which no other common ancestor
\* occurs before the final node.
C17_SumOverQualifyingPairs ==
    (Returned /\ BothParentsRecorded /\ CommonAncestorSet # {})
        => result = Min(ONE, HalfPowers(QualifyingPairs))

C17_Witness ==
    /\ Returned
    /\ BothParentsRecorded
    /\ Cardinality(CommonAncestorSet) >= 2
    /\ Cardinality(QualifyingPairs) >= 2
    /\ \E k \in LineagePairs : ClearOfOthers(k[1]) /\ ~ClearOfOthers(k[2])
    /\ result = HalfPowers(QualifyingPairs)

\* a processed pair passes the guards of lines 89-98 for the ancestor it ends in
Contributes(k) == ValidPair(k[1], k[2], k[1][Len(k[1])], common_ancestors)

\* C18: a step adds to the running total the contributions of pairs it has
\* just added to processed_paths, each once, and no pair ever leaves
\* processed_paths; so over the whole computation, in whatever order the
\* common ancestors are taken, a pair contributes at most once.
C18_PairContributesOnce ==
    [][/\ processed_paths \subseteq processed_paths'
       /\ inbreeding_coeff' - inbreeding_coeff =
              SumContributions({k \in processed_paths' \ processed_paths : Contributes(k)})]_vars

C18_Witness ==
    /\ Returned
    /\ Cardinality(common_ancestors) >= 2
    /\ Cardinality({k \in processed_paths : Contributes(k)}) >= 2
    /\ \E k \in processed_paths : ~Contributes(k)
    /\ inbreeding_coeff = SumContributions({k \in processed_paths : Contributes(k)})
    /\ result > 0

EndsInOnce(p, a) == p[Len(p)] = a /\ Count(p, a) = 1

\* C19: every path the loop enumerates for a common ancestor a, from the
\* mother or from the father, holds a exactly once, as its last node; so the
\* occurrence-count guard rejects no pair.  (The ancestor of a step is the one
\* it takes out of pending, its paths are those of the pairs it adds to
\* processed_paths.)
C19_AncestorOnceAndLast ==
    [][\A a \in pending \ pending' :
           \A k \in processed_paths' \ processed_paths :
               EndsInOnce(k[1], a) /\ EndsInOnce(k[2], a)]_vars

C19_Witness ==
    /\ Returned
    /\ \E k \in processed_paths :
           /\ Len(k[1]) >= 3
           /\ k[1][Len(k[1])] \in AncestorsOf(cat_tree_df, k[1][Len(k[1])])
           /\ EndsInOnce(k[2], k[1][Len(k[1])])
    /\ result > 0

TableMade == pc \in {"start", "lookup", "ancestors", "loop", "done"}

RowPerId(df, ids) == Children(df) = ids /\ OneRowEach(df)

\* C20: the table create_cat_tree makes holds exactly one row per distinct cat
\* id of the records, its mother and its father those of the relationship
\* read last for the cat (none: -1), whatever conflicting parents the paths
\* give; and in the graph built from it every individual has at most two
\* outgoing edges, one to the mother and one to the father of its row.
C20_OneRowLastWinsTwoEdges ==
    TableMade =>
        /\ RowPerId(cat_tree_df, RecordIds(tree_data))
        /\ \A i \in 1 .. Len(cat_tree_df) :
               /\ cat_tree_df[i].mother_id = LastRead(tree_data, cat_tree_df[i].cat_id, "HAS_MOTHER")
               /\ cat_tree_df[i].father_id = LastRead(tree_data, cat_tree_df[i].cat_id, "HAS_FATHER")
        /\ GraphBuilt =>
               \A i \in 1 .. Len(cat_tree_df) :
                   /\ Successors(graph, cat_tree_df[i].cat_id)
                          = {cat_tree_df[i].mother_id, cat_tree_df[i].father_id} \ {NO_PARENT}
                   /\ \A e \in graph.edges : graph.copies[e] = 1

C20_Witness ==
    /\ Returned
    /\ result > 0
    /\ \E i \in 1 .. Len(cat_tree_df) :
           /\ Cardinality(Successors(graph, cat_tree_df[i].cat_id)) = 2
           /\ \E p \in Giving(tree_data, cat_tree_df[i].cat_id, "HAS_MOTHER") :
                  /\ tree_data[p[1]][p[2]][3] # cat_tree_df[i].mother_id
                  /\ \A q \in Giving(tree_data, cat_tree_df[i].cat_id, "HAS_MOTHER") :
                         q = p \/ ReadBefore(p, q)

\* C15 (as stated): test_parent_relationships returns True only if the (cat,
\* father) pairs and the (cat, mother) pairs read from the database both equal
\* those of the reference CSV; it returns False whenever either set differs.
C15_TrueOnlyIfBothSetsMatch ==
    (tester.pc = "done" /\ tester.result)
        => /\ LoadRelationshipData(database, "HAS_FATHER") = RefFatherSet(tester.ref_data)
           /\ LoadRelationshipData(database, "HAS_MOTHER") = RefMotherSet(tester.ref_data)

\* the threads: the running one and the parked ones
Threads == {Frame} \cup {parked[i] : i \in 1 .. Len(parked)}

SubjectKey(cat) == MemoizeKey(INBREEDING, <<PyInt(cat)>>, {})

\* C14: once calls for different subjects that ran concurrently have all
\* ended, every call has returned a value it can return when run alone, its
\* body has worked on its own table, graph and result, and every cache entry
\* is under the key of one subject and holds a value of a lone call for
\* that subject.
C14_ConcurrentCallsAsAlone ==
    (\A t \in Threads : ~Runnable(t)) =>
        /\ \A t \in Threads :
               /\ t.memo.pc = "returned" => t.memo.value \in AloneValues(database, t.cat_id)
               /\ t.cat_tree_df # <<>> => t.graph = BuildGraph(t.cat_tree_df, EmptyGraph)
               /\ (t.pc = "done" /\ ~t.raised)
                      => t.result = CoefficientOf(t.cat_tree_df, t.cat_id)
        /\ \A e \in cache.entries :
               \E cat \in TreeIds : e[1] = SubjectKey(cat) /\ e[2] \in AloneValues(database, cat)

C14_Witness ==
    /\ Cardinality(Threads) = 2
    /\ \A t \in Threads : t.memo.pc = "returned"
    /\ \E t, u \in Threads :
           /\ t.memo.route = "miss" /\ t.memo.value > 0
           /\ u.memo.route = "miss" /\ u.memo.value # t.memo.value
           /\ u.graph # EmptyGraph /\ u.graph # t.graph
           /\ <<SubjectKey(t.cat_id), t.memo.value>> \in cache.entries
           /\ <<SubjectKey(u.cat_id), u.memo.value>> \in cache.entries

\* a positional argument that is a dict with the key 'healthy'
HealthOf(arg) == {item[2] : item \in {x \in arg.items : x[1] = "healthy"}}

\* the first positional dict with the key 'healthy' has a false value
FirstDbStateUnhealthy(args) ==
    \E i \in 1 .. Len(args) :
        /\ args[i].type = "dict"
        /\ HealthOf(args[i]) \cap {"False", "None"} # {}
        /\ \A j \in 1 .. i - 1 : args[j].type = "dict" => HealthOf(args[j]) = {}

\* C16: a call whose first positional dict with the key 'healthy' has a false
\* value never changes the cache, runs the body and returns from it.  Any
\* other call uses the cache: with an entry under its key it returns the
\* entry without running the body; without one it runs the body and returns
\* with the value stored under its key.
C16_BypassExactlyWhenUnhealthy ==
    [][LET key == MemoizeKey(memo.func, memo.args, memo.ignore)
       IN  IF FirstDbStateUnhealthy(memo.args)
           THEN /\ cache' = cache
                /\ memo.pc = "enter" => memo'.pc = "body"
                /\ memo'.pc = "returned" => memo.pc = "after"
           ELSE /\ (memo.pc = "enter" /\ Cached(cache.entries, key) # {})
                       => /\ memo'.pc = "returned"
                          /\ memo'.value \in Cached(cache.entries, key)
                          /\ cache' = cache
                /\ (memo.pc = "enter" /\ Cached(cache.entries, key) = {})
                       => memo'.pc = "body"
                /\ (memo.pc = "after" /\ memo'.pc = "returned")
                       => Cached(cache'.entries, key) = {memo'.value}]_vars

C16_Witness ==
    /\ memo.pc = "returned"
    /\ memo.route = "bypass"
    /\ Len(memo.args) = 2
    /\ HealthOf(memo.args[1]) = {"None"}
    /\ HealthOf(memo.args[2]) = {"True"}
    /\ \E e \in cache.entries :
           e[1] = MemoizeKey(memo.func, memo.args, memo.ignore) /\ e[2] # memo.value

\* the individuals two paths have in common
SharedIndividuals(k) == SeqToSet(k[1]) \cap SeqToSet(k[2])

\* C21: every pair of a mother's path and a father's path that contributes to
\* the total has no individual in common other than the common ancestor at
\* which both paths end.
C21_ContributingPairsMeetOnlyInAncestor ==
    \A k \in processed_paths :
        Contributes(k) => SharedIndividuals(k) = {k[1][Len(k[1])]}

\* C22: when every individual has at most one mother and one father, the
\* unclamped sum of the contributions never exceeds 0.5, so the value returned
\* is the sum itself, the clamp to 1.0 changing nothing.
C22_SumAtMostHalf ==
    OneRowEach(cat_tree_df) =>
        /\ inbreeding_coeff <= ONE \div 2
        /\ (Returned => result = inbreeding_coeff)

C22_Witness ==
    /\ Returned
    /\ OneRowEach(cat_tree_df)
    /\ Cardinality({k \in processed_paths : Contributes(k)}) >= 2
    /\ result = inbreeding_coeff
    /\ 4 * result >= ONE

\* C23: neither the subject's mother nor the subject's father is a member of
\* the common-ancestor set, also when one parent is an ancestor of the other
\* and when the parent links run in a cycle through a parent.
C23_ParentsNotCommonAncestors ==
    pc \in {"loop", "done"} =>
        /\ mother_id \notin common_ancestors
        /\ father_id \notin common_ancestors

C23_Witness ==
    /\ pc = "loop"
    /\ common_ancestors # {}
    /\ mother_id \in AncestorsOf(cat_tree_df, mother_id)
    /\ mother_id \in AncestorsOf(cat_tree_df, father_id)

C25_StoreHoldsObservedHealth ==
    \A s \in Sessions :
        (monitor.sessions[s].pc = "idle" /\ monitor.sessions[s].is_connected # "None")
            => monitor.sessions[s].store = DbConnectionState(monitor.sessions[s].is_connected)

\* C29: connect_to_neo4j makes at most 30 attempts; it returns the driver of
\* the first attempt that succeeds and makes no attempt after it; the process
\* ends with exit status 1 if and only if all 30 attempts have failed.
C29_ExitOnlyAfterThirtyFailures ==
    /\ seeder.attempts <= retries
    /\ seeder.pc = "returned" =>
           (seeder.driver = seeder.attempts /\ seeder.failures = seeder.attempts - 1)
    /\ (seeder.pc = "exited" /\ seeder.exit_status = 1) <=> seeder.failures = retries

\* C29 (as the code has it): at most 30 attempts; a return gives the driver of
\* the first attempt that succeeded, the last one made; the process ends, with
\* exit status 1, exactly when config.json or its section for the environment
\* cannot be read (before any attempt) or all 30 attempts have failed.
C29_ExitOnConfigOrThirtyFailures ==
    /\ seeder.attempts <= retries
    /\ seeder.pc = "returned" =>
           (seeder.driver = seeder.attempts /\ seeder.failures = seeder.attempts - 1)
    /\ seeder.pc = "exited" <=>
           \/ (~ConfigLoads(seeder.config, seeder.is_docker) /\ seeder.pc # "config")
           \/ seeder.failures = retries
    /\ seeder.pc = "exited" => seeder.exit_status = 1
    /\ seeder.pc # "exited" => seeder.exit_status = -1
    /\ ~ConfigLoads(seeder.config, seeder.is_docker) => seeder.attempts = 0

C29_Witness ==
    /\ seeder.pc = "exited"
    /\ seeder.exit_status = 1
    /\ seeder.attempts = retries
    /\ seeder.failures = retries
    /\ seeder.printed = retries - QuietAttempts

\* the key under which a call for the subject and a depth is cached
FamilyKey(cat, depth) ==
    MemoizeKey(UPDATE_FAMILY_TREE,
               <<PyNone, SelectedCat(cat), PyInt(depth), PyNone>>, FamilyIgnored)

\* a click on the button with a cat selected and a healthy database state
GenerateClick(args) ==
    /\ Len(args) = 4
    /\ args[1].type # "NoneType"
    /\ PyTruthy(args[2])
    /\ Truthy(Get(args[4], "healthy", "False"))

\* C26: a call of update_family_tree with n_clicks set, a selected cat and a
\* healthy database state never returns the initial placeholder, whatever
\* calls were made before it with the same selected cat and depth.
C26_ClickNeverReturnsPlaceholder ==
    (family.pc = "returned" /\ GenerateClick(family.args)) => family.value # Placeholder

\* C27: no response and no coefficient computed from a query that failed is
\* stored in the cache.  (Every database here holds the subject, so an empty
\* answer to the query for the family's nodes is a failed query; the query for
\* the paths has failed when it gave nothing although the subject has parents.)
C27_FailedQueryNeverCached ==
    /\ \A e \in cache.entries :
           e[1][1] = UPDATE_FAMILY_TREE => e[2] # NoFamilyData
    /\ (memo.func = INBREEDING /\ memo.pc = "returned" /\ memo.route = "miss"
            /\ tree_data = <<>>)
           => MatchPaths(database, cat_id, Depth) = <<>>

\* C28: when the call that computes the coefficient raises, update_family_tree
\* goes on with None for the coefficient and returns the page of the tree,
\* whose legend shows 'N/A', with the visible iframe style and an empty
\* message.
C28_TreeRenderedAfterException ==
    [][(family.pc = "coefficient" /\ memo.pc = "raised" /\ family' # family)
           => /\ family'.pc = "after"
              /\ family'.inbreeding_coefficient = PyNone
              /\ family'.value.srcDoc.nodes = SeqToSet(family.raw_tree_data)
              /\ family'.value.srcDoc.root = cat_id
              /\ family'.value.srcDoc.legend.label = "N/A"
              /\ family'.value.info = ""
              /\ family'.value.style = "default"]_vars

C28_Witness ==
    /\ family.pc = "returned"
    /\ family.route = "miss"
    /\ Len(family.raw_tree_data) >= 3
    /\ family.inbreeding_coefficient = PyNone
    /\ family.value.srcDoc.legend.label = "N/A"
    /\ family.value.style = "default"
    /\ \E e \in cache.entries : e[1] = FamilyKey(1, 2) /\ e[2] = family.value

====
